---- MODULE Spec2Model ----
(***************************************************************************)
(* Intellivest: sentiment aggregation (SentimentAnalyzer), stock ranking   *)
(* (StockRanker), the two backtests (SentimentBacktester and               *)
(* SentimentPriceAnalyzer) and the record store (Database).                *)
(*                                                                         *)
(* Number representation.  Python floats are modelled in fixed point:      *)
(*   - polarity values, sentiments and scores before rounding are counted  *)
(*     in units of 1e-5 (the value 0.5 is 50000);                          *)
(*   - a value after round(x, 4) is counted in units of 1e-4 (0.5 is 5000);*)
(*   - engagement weights (score * upvote_ratio, likes + retweets) are     *)
(*     counted in halves (the weight 1 is 2, the weight 1.5 is 3), which   *)
(*     represents the upvote ratios 0.5 and 1.0 exactly;                   *)
(*   - source weights of the configuration are counted in tenths.          *)
(* math.log and math.exp are computed by series to about 1e-4.             *)
(***************************************************************************)
EXTENDS Integers, Sequences, FiniteSets, TLC

VARIABLES
    min_mentions,      \* StockRanker.min_mentions
    reddit_weight,     \* StockRanker.reddit_weight, in tenths
    twitter_weight,    \* StockRanker.twitter_weight, in tenths
    ranker_error,      \* exception raised by StockRanker so far ("none")
    now,               \* the value datetime.now() returned last
    reddit_symbols,    \* reddit_sentiment['symbol_sentiment'] of the run
    twitter_symbols,   \* twitter_sentiment['symbol_sentiment'] of the run
    ranked_stocks,     \* list returned by the latest rank_stocks call
    first_ranked,      \* list returned by the first call on these inputs
    runs,              \* number of rank_stocks calls on these inputs
    batch_source,      \* "reddit" (analyze_posts) or "twitter" (analyze_tweets)
    batch_items,       \* the posts / tweets handed to the analyzer
    symbol_sentiment,  \* result['symbol_sentiment'] of the analyzer call
    symbols_mentioned, \* result['symbols_mentioned'] of the analyzer call
    analysis_outcome,  \* "idle", "returned" or the name of the exception raised
    sentiment_history, \* the stored ranking records the backtests load
    price_history,     \* symbol -> what yfinance's Ticker.history returns for it
    accuracy_results,  \* return value of calculate_sentiment_accuracy
    confidence_analysis, \* return value of analyze_confidence_correlation
    correlation,       \* return value of _correlate_sentiment_with_prices
    called,            \* the backtest entry points that have returned
    sentiment_table,   \* the rows of the table symbol_sentiment_history
    historical_sentiment, \* return value of load_historical_sentiment
    stock_rankings,    \* the rows of the table stock_rankings, by id
    next_id,           \* the id AUTOINCREMENT gives the next ranking row
    clock,             \* the database clock (CURRENT_TIMESTAMP), in seconds
    latest_rankings,   \* return value of get_latest_rankings
    db_log,            \* what the Database logged last ("none")
    last_stored,       \* the latest store_rankings call: its argument, the
                       \* INSERT that raised (0: none), the rows it committed
    cutoff_date,       \* cutoff_date of the latest cleanup_old_data
    db_last,           \* the Database method that returned last
    db_called,         \* the Database methods that have returned
    in_flight          \* run -> the frame of its call in progress

vars == <<min_mentions, reddit_weight, twitter_weight, ranker_error, now,
          reddit_symbols, twitter_symbols, ranked_stocks, first_ranked, runs,
          batch_source, batch_items, symbol_sentiment, symbols_mentioned,
          analysis_outcome, sentiment_history, price_history, accuracy_results,
          confidence_analysis, correlation, called, sentiment_table,
          historical_sentiment, stock_rankings, next_id, clock, latest_rankings, db_log, last_stored,
          cutoff_date, db_last, db_called, in_flight>>

rankerVars == <<min_mentions, reddit_weight, twitter_weight, ranker_error, now,
                reddit_symbols, twitter_symbols, ranked_stocks, first_ranked, runs>>

analyzerVars == <<batch_source, batch_items, symbol_sentiment, symbols_mentioned,
                  analysis_outcome>>

backtestVars == <<sentiment_history, price_history, accuracy_results,
                  confidence_analysis, correlation, called, sentiment_table,
                  historical_sentiment>>

databaseVars == <<stock_rankings, next_id, clock, latest_rankings, db_log,
                  last_stored, cutoff_date, db_last, db_called>>

flightVars == <<in_flight>>

(***************************************************************************)
(* Bounds of the model.                                                    *)
(***************************************************************************)
MaxClock == 1
MaxItems == 2
MaxRecords == 2
MaxRows == 3
MaxInstant == 1

(***************************************************************************)
(* Fixed-point arithmetic.                                                 *)
(***************************************************************************)
Min(a, b) == IF a <= b THEN a ELSE b
Max(a, b) == IF a >= b THEN a ELSE b
Abs(a) == IF a < 0 THEN 0 - a ELSE a

\* a / b of two numbers, to the nearest unit (b > 0), as float division rounds
\* to the nearest representable value.
DivNearest(a, b) == (2 * a + b) \div (2 * b)

\* the product of two values counted in 1e-5, in 1e-5 (operands below 10.0)
MulU(a, b) == ((a \div 1000) * b) \div 100 + ((a % 1000) * b) \div 100000

\* ln 2 in units of 1e-5
Ln2U == 69315

RECURSIVE LnReduce(_, _)
\* <<k, m>> with x = m * 2^k and m in [1.0, 2.0), x counted in 1e-5
LnReduce(x, k) == IF x >= 200000 THEN LnReduce(x \div 2, k + 1) ELSE <<k, x>>

\* ln(1 + f/(2+f)) series: ln(m) = 2 * (z + z^3/3 + z^5/5 + z^7/7 + z^9/9),
\* z = (m-1)/(m+1)
LnMantissa(m) ==
    LET z  == DivNearest((m - 100000) * 10000, (m + 100000) \div 10)
        z2 == MulU(z, z)
        z3 == MulU(z2, z)
        z5 == MulU(z3, z2)
        z7 == MulU(z5, z2)
        z9 == MulU(z7, z2)
    IN 2 * (z + z3 \div 3 + z5 \div 5 + z7 \div 7 + z9 \div 9)

\* math.log(n / d) for integers n >= d >= 1, in units of 1e-5
Log(n, d) ==
    LET r == LnReduce(DivNearest(n * 100000, d), 0)
    IN r[1] * Ln2U + LnMantissa(r[2])

RECURSIVE Halve(_, _)
Halve(x, k) == IF k = 0 THEN x ELSE Halve(x \div 2, k - 1)

\* math.exp(-x) for x >= 0 counted in 1e-5, in units of 1e-5
ExpNeg(x) ==
    LET k  == x \div Ln2U
        r  == x % Ln2U
        r2 == MulU(r, r)
        r3 == MulU(r2, r)
        r4 == MulU(r3, r)
        r5 == MulU(r4, r)
        r6 == MulU(r5, r)
        e  == 100000 - r + r2 \div 2 - r3 \div 6 + r4 \div 24 - r5 \div 120 + r6 \div 720
    IN IF k > 30 THEN 0 ELSE Halve(e, k)

\* Python round(x, 4): x in 1e-5, result in 1e-4, ties to even
Round4(x) ==
    LET q == x \div 10
        r == x % 10
    IN IF r < 5 THEN q
       ELSE IF r > 5 THEN q + 1
       ELSE IF q % 2 = 0 THEN q ELSE q + 1

(***************************************************************************)
(* Configuration (Config._default_config and config/settings.yaml).        *)
(***************************************************************************)
Symbols == {"AAPL", "SPY", "TSLA"}

\* the symbols in the order of Python's string comparison
SymbolOrder == <<"AAPL", "SPY", "TSLA">>

SymbolIndex(s) == CHOOSE i \in 1..Len(SymbolOrder) : SymbolOrder[i] = s

\* the 'analysis' section a settings file can hold: the defaults, a lowered
\* min_mentions, a source switched off, and weights outside [0, 1]
AnalysisConfigs ==
    { [min_mentions |-> 5, weight_reddit |-> 6,  weight_twitter |-> 4],
      [min_mentions |-> 1, weight_reddit |-> 6,  weight_twitter |-> 4],
      [min_mentions |-> 1, weight_reddit |-> 0,  weight_twitter |-> 10],
      [min_mentions |-> 5, weight_reddit |-> 15, weight_twitter |-> -5] }

(***************************************************************************)
(* Python dicts are functions; d.get(k, default).                          *)
(***************************************************************************)
EmptyDict == [k \in {} |-> 0]

Get(d, k, default) == IF k \in DOMAIN d THEN d[k] ELSE default

(***************************************************************************)
(* StockRanker                                                             *)
(***************************************************************************)
\* per-symbol signals a caller hands to rank_stocks for reddit
RedditSignals ==
    { [compound |-> 50000, positive |-> 70000, negative |-> 20000,
       mentions |-> 10, total_weight |-> 200],
      [compound |-> -40000, positive |-> 10000, negative |-> 60000,
       mentions |-> 1, total_weight |-> 30],
      [compound |-> -40000, positive |-> 10000, negative |-> 60000,
       mentions |-> 3, total_weight |-> 6] }

\* per-symbol signals a caller hands to rank_stocks for twitter
TwitterSignals ==
    { [compound |-> 30000, positive |-> 60000, negative |-> 30000,
       mentions |-> 8, total_weight |-> 160] }

\* a settings file that sets min_mentions to 0, next to the defaults
ThresholdConfigs ==
    { [min_mentions |-> 0, weight_reddit |-> 6, weight_twitter |-> 4],
      [min_mentions |-> 5, weight_reddit |-> 6, weight_twitter |-> 4] }

\* the symbols of the runs around the thresholds
ThresholdSymbols == {"AAPL", "TSLA"}

\* reddit signals around min_reddit_mentions, and one that carries no mention
ThresholdRedditSignals ==
    { [compound |-> 0, positive |-> 0, negative |-> 0,
       mentions |-> 0, total_weight |-> 0],
      [compound |-> 20000, positive |-> 40000, negative |-> 10000,
       mentions |-> 2, total_weight |-> 8],
      [compound |-> -40000, positive |-> 10000, negative |-> 60000,
       mentions |-> 3, total_weight |-> 6] }

\* twitter signals around min_twitter_mentions
ThresholdTwitterSignals ==
    { [compound |-> 30000, positive |-> 60000, negative |-> 30000,
       mentions |-> 4, total_weight |-> 10],
      [compound |-> 30000, positive |-> 60000, negative |-> 30000,
       mentions |-> 5, total_weight |-> 40] }

\* _calculate_momentum_score: the result in units of 1e-5
MomentumScore(reddit_mentions, twitter_mentions, reddit_w, twitter_w) ==
    LET total_momentum ==
            (MulU(Log(reddit_mentions + 1, 1), Log(reddit_w + 2, 2)) * reddit_weight
             + MulU(Log(twitter_mentions + 1, 1), Log(twitter_w + 2, 2)) * twitter_weight)
            \div 10
        \* 2 / (1 + exp(-t/10)) - 1 is odd in t
        x == Abs(total_momentum) \div 10
        e == ExpNeg(x)
        \* 2 / (1 + e) - 1 = (1 - e) / (1 + e)
        s == DivNearest((100000 - e) * 10000, (100000 + e) \div 10)
        normalized_momentum == IF total_momentum < 0 THEN 0 - s ELSE s
    IN Max(0, Min(100000, normalized_momentum))

\* the confidence with the mention ratio not capped at 1.0
ConfidenceScoreNoCap(reddit_mentions, twitter_mentions, reddit_w, twitter_w) ==
    LET total_mentions == reddit_mentions + twitter_mentions
        mention_confidence == DivNearest(total_mentions * 100000, 8)
        source_diversity ==
            IF reddit_mentions >= 3 /\ twitter_mentions >= 5 THEN 100000
            ELSE IF reddit_mentions > 0 /\ twitter_mentions > 0 THEN 80000
            ELSE 50000
        engagement_quality == Min(100000, DivNearest((reddit_w + twitter_w) * 100000, 200))
    IN Round4((mention_confidence * 4 + source_diversity * 4 + engagement_quality * 2) \div 10)

\* the bonus granted as soon as either source reaches its threshold
SourceDiversityEitherSource(reddit_mentions, twitter_mentions) ==
    IF reddit_mentions >= 3 \/ twitter_mentions >= 5 THEN 100000
    ELSE IF reddit_mentions > 0 /\ twitter_mentions > 0 THEN 80000
    ELSE 50000

\* lines 168-169 and 177-182 of _calculate_confidence_score: source_diversity
SourceDiversity(reddit_mentions, twitter_mentions) ==
    LET min_reddit_mentions == 3
        min_twitter_mentions == 5
    IN IF reddit_mentions >= min_reddit_mentions
          /\ twitter_mentions >= min_twitter_mentions THEN 100000
       ELSE IF reddit_mentions > 0 /\ twitter_mentions > 0 THEN 80000
       ELSE 50000

\* _calculate_confidence_score: the result, round(confidence, 4), in units of 1e-4
ConfidenceScore(reddit_mentions, twitter_mentions, reddit_w, twitter_w) ==
    LET min_total_mentions == 8
        total_mentions == reddit_mentions + twitter_mentions
        mention_confidence ==
            Min(100000, DivNearest(total_mentions * 100000, min_total_mentions))
        source_diversity == SourceDiversity(reddit_mentions, twitter_mentions)
        \* total_weight / 100, the weights counted in halves
        total_weight == reddit_w + twitter_w
        engagement_quality == Min(100000, DivNearest(total_weight * 100000, 200))
        confidence ==
            (mention_confidence * 4 + source_diversity * 4 + engagement_quality * 2) \div 10
    IN Round4(confidence)

\* the blend with the source weights alone, the engagement totals forgotten
CompositeSentimentUnweighted(rs, rw, ts, tw) ==
    DivNearest(rs * reddit_weight + ts * twitter_weight, reddit_weight + twitter_weight)

\* lines 93-103 of _calculate_stock_metrics: composite_sentiment in units of 1e-5
CompositeSentiment(rs, rw, ts, tw) ==
    LET total_weight == rw * reddit_weight + tw * twitter_weight
    IN IF total_weight > 0
       THEN DivNearest(rs * rw * reddit_weight + ts * tw * twitter_weight, total_weight)
       ELSE 0

\* _calculate_stock_metrics; t is the value of datetime.now()
CalculateStockMetrics(symbol, reddit_data, twitter_data, t) ==
    LET reddit_sentiment == Get(reddit_data, "compound", 0)
        reddit_mentions == Get(reddit_data, "mentions", 0)
        reddit_weight_total == Get(reddit_data, "total_weight", 0)
        reddit_positive == Get(reddit_data, "positive", 0)
        reddit_negative == Get(reddit_data, "negative", 0)
        twitter_sentiment == Get(twitter_data, "compound", 0)
        twitter_mentions == Get(twitter_data, "mentions", 0)
        twitter_weight_total == Get(twitter_data, "total_weight", 0)
        twitter_positive == Get(twitter_data, "positive", 0)
        twitter_negative == Get(twitter_data, "negative", 0)
        composite_sentiment ==
            CompositeSentiment(reddit_sentiment, reddit_weight_total,
                               twitter_sentiment, twitter_weight_total)
        momentum_score ==
            MomentumScore(reddit_mentions, twitter_mentions,
                          reddit_weight_total, twitter_weight_total)
        composite_score == (composite_sentiment * 7 + momentum_score * 3) \div 10
        confidence_score ==
            ConfidenceScore(reddit_mentions, twitter_mentions,
                            reddit_weight_total, twitter_weight_total)
    IN [symbol |-> symbol,
        composite_score |-> Round4(composite_score),
        composite_sentiment |-> Round4(composite_sentiment),
        momentum_score |-> Round4(momentum_score),
        \* round(confidence_score, 4) of a value already rounded to 4 digits
        confidence_score |-> Round4(confidence_score * 10),
        total_mentions |-> reddit_mentions + twitter_mentions,
        reddit_mentions |-> reddit_mentions,
        twitter_mentions |-> twitter_mentions,
        reddit_sentiment |-> Round4(reddit_sentiment),
        twitter_sentiment |-> Round4(twitter_sentiment),
        reddit_positive |-> Round4(reddit_positive),
        reddit_negative |-> Round4(reddit_negative),
        twitter_positive |-> Round4(twitter_positive),
        twitter_negative |-> Round4(twitter_negative),
        reddit_engagement |-> reddit_weight_total,
        twitter_engagement |-> twitter_weight_total,
        timestamp |-> t]

\* the orders in which Python can iterate over the set all_symbols
IterationOrders(S) ==
    { f \in [1..Cardinality(S) -> S] : \A i, j \in 1..Cardinality(S) : f[i] = f[j] => i = j }

\* the sort without reverse=True
RECURSIVE InsertAscending(_, _)
InsertAscending(sorted, x) ==
    IF sorted = <<>> THEN <<x>>
    ELSE IF Head(sorted).composite_score <= x.composite_score
         THEN <<Head(sorted)>> \o InsertAscending(Tail(sorted), x)
         ELSE <<x>> \o sorted

RECURSIVE SortAscending(_)
SortAscending(stocks) ==
    IF stocks = <<>> THEN <<>>
    ELSE InsertAscending(SortAscending(SubSeq(stocks, 1, Len(stocks) - 1)),
                         stocks[Len(stocks)])

RECURSIVE InsertDescending(_, _)
\* x goes behind every entry whose key is at least its own
InsertDescending(sorted, x) ==
    IF sorted = <<>> THEN <<x>>
    ELSE IF Head(sorted).composite_score >= x.composite_score
         THEN <<Head(sorted)>> \o InsertDescending(Tail(sorted), x)
         ELSE <<x>> \o sorted

RECURSIVE SortByCompositeScore(_)
\* list.sort(key=composite_score, reverse=True): stable, entries with equal
\* keys stay in the order of the list
SortByCompositeScore(stocks) ==
    IF stocks = <<>> THEN <<>>
    ELSE InsertDescending(SortByCompositeScore(SubSeq(stocks, 1, Len(stocks) - 1)),
                          stocks[Len(stocks)])

\* the filter applied to the reddit mentions alone
IncludedByRedditMentions(stock_metrics) ==
    stock_metrics.reddit_mentions >= min_mentions

\* line 53-54 of rank_stocks: only stocks with minimum mentions are included
Included(stock_metrics) ==
    stock_metrics.reddit_mentions + stock_metrics.twitter_mentions >= min_mentions

RECURSIVE SelectIncluded(_)
SelectIncluded(stocks) ==
    IF stocks = <<>> THEN <<>>
    ELSE IF Included(Head(stocks))
         THEN <<Head(stocks)>> \o SelectIncluded(Tail(stocks))
         ELSE SelectIncluded(Tail(stocks))

\* lines 60-62 of rank_stocks
AddRankings(stocks) ==
    [i \in 1..Len(stocks) |-> [rank |-> i] @@ stocks[i]]

\* rank_stocks, iterating over all_symbols in the given order, at time t
RankStocksResult(reddit, twitter, order, t) ==
    LET metrics == [i \in 1..Len(order) |->
                       CalculateStockMetrics(order[i],
                                             Get(reddit, order[i], EmptyDict),
                                             Get(twitter, order[i], EmptyDict), t)]
    IN AddRankings(SortByCompositeScore(SelectIncluded(metrics)))

(***************************************************************************)
(* SentimentAnalyzer                                                       *)
(***************************************************************************)
\* results of analyze_text (the polarity source): 0.6, -0.2, neutral, and a
\* source that returns a compound outside [-1, 1]
Polarities ==
    { [positive |-> 60000, negative |-> 0,     neutral |-> 40000,  compound |-> 60000],
      [positive |-> 0,     negative |-> 20000, neutral |-> 80000,  compound |-> -20000],
      [positive |-> 0,     negative |-> 0,     neutral |-> 100000, compound |-> 150000] }

\* the 'symbols' lists of scraped items (extract_stock_symbols removes duplicates)
SymbolLists == { <<"AAPL">>, <<"AAPL", "TSLA">> }

\* post['score'] and post['upvote_ratio'] (in halves)
PostScores == {-2, 0, 3}
UpvoteRatios == {1, 2}

\* tweet['like_count'] and tweet['retweet_count']
LikeCounts == {0, 2}
RetweetCounts == {0, 1}

\* the entries analyze_posts appends to symbol_sentiments[symbol]
PostEntry(post) ==
    [sentiment |-> post.sentiment, score |-> post.score,
     upvote_ratio |-> post.upvote_ratio, num_comments |-> 0]

\* the entries analyze_tweets appends to symbol_sentiments[symbol]
TweetEntry(tweet) ==
    [sentiment |-> tweet.sentiment, like_count |-> tweet.like_count,
     retweet_count |-> tweet.retweet_count, reply_count |-> 0]

\* the weight without the floor max(1, ...)
WeightNoFloor(item) ==
    IF "score" \in DOMAIN item THEN item.score * Get(item, "upvote_ratio", 1)
    ELSE IF "like_count" \in DOMAIN item
         THEN 2 * (item.like_count + item.retweet_count)
         ELSE 2

\* the weight of a post taken from its score alone, the upvote ratio forgotten
WeightRaw(item) ==
    IF "score" \in DOMAIN item THEN Max(2, 2 * item.score)
    ELSE IF "like_count" \in DOMAIN item
         THEN Max(2, 2 * (item.like_count + item.retweet_count))
         ELSE 2

\* lines 237-242 of _aggregate_sentiment_by_symbol: the weight of one entry,
\* counted in halves
Weight(item) ==
    IF "score" \in DOMAIN item
    THEN Max(2, item.score * Get(item, "upvote_ratio", 1))
    ELSE IF "like_count" \in DOMAIN item
         THEN Max(2, 2 * (item.like_count + item.retweet_count))
         ELSE 2

RECURSIVE WeightedSum(_, _)
\* the accumulators weighted_positive, weighted_negative, weighted_compound
WeightedSum(sentiments, key) ==
    IF sentiments = <<>> THEN 0
    ELSE WeightedSum(SubSeq(sentiments, 1, Len(sentiments) - 1), key)
         + sentiments[Len(sentiments)].sentiment[key] * Weight(sentiments[Len(sentiments)])

RECURSIVE TotalWeight(_)
TotalWeight(sentiments) ==
    IF sentiments = <<>> THEN 0
    ELSE TotalWeight(SubSeq(sentiments, 1, Len(sentiments) - 1))
         + Weight(sentiments[Len(sentiments)])

\* signed a / b to the nearest unit, b > 0
MeanOf(a, b) == IF a >= 0 THEN DivNearest(a, b) ELSE 0 - DivNearest(0 - a, b)

\* the aggregated entry with the weight total reported as the mention count
AggregateOneMentionsFromWeight(sentiments) ==
    LET total_weight == TotalWeight(sentiments)
    IN [positive |-> MeanOf(WeightedSum(sentiments, "positive"), total_weight),
        negative |-> MeanOf(WeightedSum(sentiments, "negative"), total_weight),
        compound |-> MeanOf(WeightedSum(sentiments, "compound"), total_weight),
        mentions |-> total_weight \div 2,
        total_weight |-> total_weight]

\* lines 249-256: the aggregated entry of one symbol
AggregateOne(sentiments) ==
    LET total_weight == TotalWeight(sentiments)
    IN [positive |-> MeanOf(WeightedSum(sentiments, "positive"), total_weight),
        negative |-> MeanOf(WeightedSum(sentiments, "negative"), total_weight),
        compound |-> MeanOf(WeightedSum(sentiments, "compound"), total_weight),
        mentions |-> Len(sentiments),
        total_weight |-> total_weight]

\* _aggregate_sentiment_by_symbol
AggregateSentimentBySymbol(symbol_sentiments) ==
    LET kept == { s \in DOMAIN symbol_sentiments :
                    /\ symbol_sentiments[s] # <<>>
                    /\ TotalWeight(symbol_sentiments[s]) > 0 }
    IN [s \in kept |-> AggregateOne(symbol_sentiments[s])]

InSeq(x, seq) == \E i \in 1..Len(seq) : seq[i] = x

RECURSIVE Occurrences(_, _)
Occurrences(x, seq) ==
    IF seq = <<>> THEN 0
    ELSE (IF Head(seq) = x THEN 1 ELSE 0) + Occurrences(x, Tail(seq))

RECURSIVE EntriesFor(_, _, _)
\* symbol_sentiments[symbol] after the loop over the items: one entry per
\* occurrence of the symbol in an item's 'symbols' list, in item order
EntriesFor(symbol, items, source) ==
    IF items = <<>> THEN <<>>
    ELSE LET item == items[Len(items)]
             entry == IF source = "reddit" THEN PostEntry(item) ELSE TweetEntry(item)
         IN EntriesFor(symbol, SubSeq(items, 1, Len(items) - 1), source)
            \o [i \in 1..Occurrences(symbol, item.symbols) |-> entry]

\* the defaultdict symbol_sentiments built by analyze_posts / analyze_tweets
SymbolSentiments(items, source) ==
    LET named == { s \in Symbols : \E i \in 1..Len(items) : InSeq(s, items[i].symbols) }
    IN [s \in named |-> EntriesFor(s, items, source)]

(***************************************************************************)
(* Price histories and stored rankings the backtests read.  A date is the  *)
(* number of a calendar day; day 1 is a Monday, days 6 and 7 a weekend.    *)
(* Returns are fractions in units of 1e-5, percentages in units of 1e-5    *)
(* percent; sentiment and confidence of a stored record are in units of    *)
(* 1e-4, as rank_stocks rounds them.                                       *)
(***************************************************************************)
\* two weeks of trading with a flat day at each end
TwoWeeks ==
    << [date |-> 1, Close |-> 100], [date |-> 2, Close |-> 100],
       [date |-> 3, Close |-> 102], [date |-> 4, Close |-> 101],
       [date |-> 5, Close |-> 103], [date |-> 8, Close |-> 104],
       [date |-> 9, Close |-> 102], [date |-> 10, Close |-> 105],
       [date |-> 11, Close |-> 105], [date |-> 12, Close |-> 106] >>

\* a ticker listed on day 11
TwoDays == << [date |-> 11, Close |-> 50], [date |-> 12, Close |-> 49] >>

\* the history yfinance returns for a symbol it has no data of
NoPrices == <<>>

PriceSeries == {TwoWeeks, TwoDays, NoPrices}

BacktestSymbols == {"AAPL", "TSLA"}

\* rows of the stock_rankings table / of the top_rankings of a daily JSON file
StoredRankings ==
    { [symbol |-> "AAPL", date |-> 1, composite_sentiment |-> 3000,
       confidence_score |-> 4000, total_mentions |-> 10],
      [symbol |-> "AAPL", date |-> 1, composite_sentiment |-> 0,
       confidence_score |-> 0, total_mentions |-> 5],
      [symbol |-> "AAPL", date |-> 6, composite_sentiment |-> 500,
       confidence_score |-> 3000, total_mentions |-> 6],
      [symbol |-> "TSLA", date |-> 1, composite_sentiment |-> -4000,
       confidence_score |-> 7000, total_mentions |-> 8],
      [symbol |-> "AAPL", date |-> 9, composite_sentiment |-> -4000,
       confidence_score |-> 5000, total_mentions |-> 7],
      [symbol |-> "AAPL", date |-> 11, composite_sentiment |-> 3000,
       confidence_score |-> 8000, total_mentions |-> 9],
      [symbol |-> "AAPL", date |-> 12, composite_sentiment |-> 3000,
       confidence_score |-> 10000, total_mentions |-> 12] }

\* rows of symbol_sentiment_history: two of day 1 and one of day 9
SentimentRows ==
    { [symbol |-> "AAPL", source |-> "reddit", sentiment_compound |-> -6000,
       mentions |-> 3, created_at |-> 86400],
      [symbol |-> "AAPL", source |-> "twitter", sentiment_compound |-> 2000,
       mentions |-> 2, created_at |-> 90000],
      [symbol |-> "TSLA", source |-> "reddit", sentiment_compound |-> 3000,
       mentions |-> 4, created_at |-> 777600] }

\* np.nan, a float of a DataFrame column, and pd.isna
NaN == [defined |-> FALSE, value |-> 0]

Float(v) == [defined |-> TRUE, value |-> v]

IsNa(x) == ~x.defined

\* Series.pct_change(periods) of the Close column at row i:
\* Close[i] / Close[i - periods] - 1, NaN where row i - periods does not exist
PctChange(hist, i, periods) ==
    IF i - periods \in 1..Len(hist)
    THEN Float(MeanOf((hist[i].Close - hist[i - periods].Close) * 100000,
                      hist[i - periods].Close))
    ELSE NaN

\* the unique values of a column, and a list's first index that satisfies a mask
SymbolsOf(records) == { records[i].symbol : i \in 1..Len(records) }

First(mask) == CHOOSE i \in mask : \A j \in mask : i <= j

(***************************************************************************)
(* SentimentBacktester                                                     *)
(***************************************************************************)
\* lines 99-106 of get_stock_price_data: the columns added to a history
WithForwardReturns(hist) ==
    [i \in 1..Len(hist) |->
        [date |-> hist[i].date,
         Close |-> hist[i].Close,
         Daily_Return |-> PctChange(hist, i, 1),
         \* Daily_Return.shift(-1)
         Forward_1d_Return |-> IF i + 1 <= Len(hist) THEN PctChange(hist, i + 1, 1) ELSE NaN,
         Forward_3d_Return |-> PctChange(hist, i, -3),
         Forward_7d_Return |-> PctChange(hist, i, -7)]]

\* get_stock_price_data: symbols with an empty history are left out
StockPriceData(symbols, history) ==
    [symbol \in { x \in symbols : Get(history, x, <<>>) # <<>> } |->
        WithForwardReturns(history[symbol])]

\* lines 171 and 175: 1 if x > 0 else -1
Sign(x) == IF x > 0 THEN 1 ELSE -1

\* lines 174-177: the increment of correct_predictions for one horizon
Correct(predicted_direction, forward_return) ==
    IF ~IsNa(forward_return) /\ predicted_direction = Sign(forward_return.value)
    THEN 1 ELSE 0

\* lines 127-137 of calculate_sentiment_accuracy
NoPredictions ==
    [total_predictions |-> 0,
     correct_predictions_1d |-> 0, correct_predictions_3d |-> 0,
     correct_predictions_7d |-> 0,
     accuracy_1d |-> 0, accuracy_3d |-> 0, accuracy_7d |-> 0,
     correlations |-> EmptyDict,
     detailed_results |-> <<>>]

\* lines 140-199: the body of the loop over the rows of sentiment_df
AccuracyRow(results, row, price_data) ==
    IF row.symbol \notin DOMAIN price_data THEN results
    ELSE
    LET symbol_prices == price_data[row.symbol]
        date_matches == { i \in 1..Len(symbol_prices) : symbol_prices[i].date >= row.date }
    IN IF date_matches = {} THEN results
       ELSE
       LET price_row == symbol_prices[First(date_matches)]
           forward_1d == price_row.Forward_1d_Return
           forward_3d == price_row.Forward_3d_Return
           forward_7d == price_row.Forward_7d_Return
           predicted_direction == Sign(row.composite_sentiment)
       IN IF IsNa(forward_1d) /\ IsNa(forward_3d) /\ IsNa(forward_7d) THEN results
          ELSE [results EXCEPT
                   !.total_predictions = @ + 1,
                   !.correct_predictions_1d = @ + Correct(predicted_direction, forward_1d),
                   !.correct_predictions_3d = @ + Correct(predicted_direction, forward_3d),
                   !.correct_predictions_7d = @ + Correct(predicted_direction, forward_7d),
                   !.detailed_results =
                       Append(@, [symbol |-> row.symbol,
                                  date |-> row.date,
                                  sentiment_score |-> row.composite_sentiment,
                                  confidence_score |-> row.confidence_score,
                                  forward_1d_return |-> forward_1d,
                                  forward_3d_return |-> forward_3d,
                                  forward_7d_return |-> forward_7d,
                                  predicted_direction |-> predicted_direction])]

RECURSIVE AccuracyRows(_, _, _)
AccuracyRows(results, sentiment_df, price_data) ==
    IF sentiment_df = <<>> THEN results
    ELSE AccuracyRows(AccuracyRow(results, Head(sentiment_df), price_data),
                      Tail(sentiment_df), price_data)

\* a ratio of two counts as a float, in units of 1e-5
Ratio(count, total) == DivNearest(count * 100000, total)

\* calculate_sentiment_accuracy
CalculateSentimentAccuracy(sentiment_df, price_data) ==
    LET results == AccuracyRows(NoPredictions, sentiment_df, price_data)
    IN IF results.total_predictions > 0
       THEN [results EXCEPT
                !.accuracy_1d = Ratio(results.correct_predictions_1d, results.total_predictions),
                !.accuracy_3d = Ratio(results.correct_predictions_3d, results.total_predictions),
                !.accuracy_7d = Ratio(results.correct_predictions_7d, results.total_predictions)]
       ELSE results

\* lines 226-228 of analyze_confidence_correlation: pd.cut with the bins
\* [0, 0.3, 0.5, 0.7, 1.0]; pandas closes each bin on the right and leaves the
\* lowest edge out, and a value in no bin gets NaN
ConfidenceBin(confidence_score) ==
    IF confidence_score > 0 /\ confidence_score <= 3000 THEN "Low"
    ELSE IF confidence_score > 3000 /\ confidence_score <= 5000 THEN "Medium-Low"
    ELSE IF confidence_score > 5000 /\ confidence_score <= 7000 THEN "Medium-High"
    ELSE IF confidence_score > 7000 /\ confidence_score <= 10000 THEN "High"
    ELSE "nan"

Periods == {"1d", "3d", "7d"}

\* line 252: f'forward_{period}_return'
ReturnColumn(period) ==
    CASE period = "1d" -> "forward_1d_return"
      [] period = "3d" -> "forward_3d_return"
      [] period = "7d" -> "forward_7d_return"

RECURSIVE SumOf(_, _)
SumOf(rows, column) ==
    IF rows = <<>> THEN 0 ELSE rows[1][column] + SumOf(Tail(rows), column)

\* DataFrame.dropna(subset=[column])
DropNa(rows, column) == SelectSeq(rows, LAMBDA r : ~IsNa(r[column]))

RECURSIVE SumOfFloats(_, _)
SumOfFloats(rows, column) ==
    IF rows = <<>> THEN 0 ELSE rows[1][column].value + SumOfFloats(Tail(rows), column)

\* Series.mean() of a return column: NaN is skipped, and is the mean of nothing
MeanReturn(rows, column) ==
    LET valid_data == DropNa(rows, column)
    IN IF valid_data = <<>> THEN NaN
       ELSE Float(MeanOf(SumOfFloats(valid_data, column), Len(valid_data)))

\* lines 254-260: the direction accuracy of a bin for one period
BinAccuracy(bin_data, period) ==
    LET return_col == ReturnColumn(period)
        valid_data == DropNa(bin_data, return_col)
        correct_predictions ==
            Len(SelectSeq(valid_data,
                          LAMBDA r : \/ r.predicted_direction = 1 /\ r[return_col].value > 0
                                     \/ r.predicted_direction = -1 /\ r[return_col].value < 0))
    IN IF Len(valid_data) > 0 THEN Ratio(correct_predictions, Len(valid_data)) ELSE 0

\* lines 236-248 and 250-260: the entry of one confidence bin
BinResults(bin_data) ==
    [count |-> Len(bin_data),
     avg_confidence |-> DivNearest(SumOf(bin_data, "confidence_score"), Len(bin_data)),
     accuracy_1d |-> BinAccuracy(bin_data, "1d"),
     accuracy_3d |-> BinAccuracy(bin_data, "3d"),
     accuracy_7d |-> BinAccuracy(bin_data, "7d"),
     avg_return_1d |-> MeanReturn(bin_data, "forward_1d_return"),
     avg_return_3d |-> MeanReturn(bin_data, "forward_3d_return"),
     avg_return_7d |-> MeanReturn(bin_data, "forward_7d_return")]

\* analyze_confidence_correlation
AnalyzeConfidenceCorrelation(results) ==
    LET detailed_results == results.detailed_results
        bins == { ConfidenceBin(detailed_results[i].confidence_score) :
                      i \in 1..Len(detailed_results) }
    IN IF detailed_results = <<>> THEN EmptyDict
       ELSE [conf_bin \in bins \ {"nan"} |->
                BinResults(SelectSeq(detailed_results,
                                     LAMBDA r : ConfidenceBin(r.confidence_score) = conf_bin))]

(***************************************************************************)
(* SentimentPriceAnalyzer                                                  *)
(***************************************************************************)
\* lines 56-64 of _load_json_sentiment_data: a stock of top_rankings
JsonSentimentItem(stock) ==
    [date |-> stock.date,
     symbol |-> stock.symbol,
     sentiment_score |-> Get(stock, "composite_sentiment", 0),
     mentions |-> Get(stock, "total_mentions", 0),
     confidence |-> Get(stock, "confidence_score", 0),
     composite_score |-> Get(stock, "composite_score", 0),
     source |-> "json"]

LoadJsonSentimentData(stocks) == [i \in 1..Len(stocks) |-> JsonSentimentItem(stocks[i])]

\* DATE(created_at) of a timestamp counted in seconds: its day number
DateOf(created_at) == created_at \div 86400

\* lines 78-88 of _load_database_sentiment_data: the row the query returns for
\* the rows of one day and symbol (AVG, SUM, COUNT)
SentimentGroup(rows, date, symbol) ==
    LET members == SelectSeq(rows, LAMBDA r : /\ DateOf(r.created_at) = date
                                              /\ r.symbol = symbol)
    IN [date |-> date,
        symbol |-> symbol,
        sentiment_score |-> MeanOf(SumOf(members, "sentiment_compound"), Len(members)),
        mentions |-> SumOf(members, "mentions"),
        records |-> Len(members)]

RECURSIVE OrderGroups(_)
\* line 89: ORDER BY date DESC, symbol
OrderGroups(keys) ==
    IF keys = {} THEN <<>>
    ELSE LET first == CHOOSE k \in keys :
                          \A o \in keys :
                              \/ k[1] > o[1]
                              \/ k[1] = o[1] /\ SymbolIndex(k[2]) <= SymbolIndex(o[2])
         IN <<first>> \o OrderGroups(keys \ {first})

\* lines 93-102: the item built from a row of the query; min(records / 10, 1)
DatabaseSentimentItem(row) ==
    [date |-> row.date,
     symbol |-> row.symbol,
     sentiment_score |-> row.sentiment_score,
     mentions |-> row.mentions,
     confidence |-> Min(row.records * 1000, 10000),
     composite_score |-> row.sentiment_score,
     source |-> "database"]

\* _load_database_sentiment_data, every row being within days_back
LoadDatabaseSentimentData(rows) ==
    LET keys == OrderGroups({ <<DateOf(rows[i].created_at), rows[i].symbol>> :
                                i \in 1..Len(rows) })
    IN [i \in 1..Len(keys) |->
           DatabaseSentimentItem(SentimentGroup(rows, keys[i][1], keys[i][2]))]

\* line 116: f"{item['date']}_{item['symbol']}"
Key(item) == <<item.date, item.symbol>>

\* lines 115-117: combined[key] = item; a dict keeps a key where it came first
RECURSIVE Combine(_, _)
Combine(combined, items) ==
    IF items = <<>> THEN combined
    ELSE LET item == Head(items)
             same == { i \in 1..Len(combined) : Key(combined[i]) = Key(item) }
         IN Combine(IF same = {} THEN Append(combined, item)
                    ELSE [combined EXCEPT ![First(same)] = item],
                    Tail(items))

\* the combination that lets the database items overwrite the JSON items
CombineSentimentDataJsonFirst(json_data, db_data) == Combine(<<>>, json_data \o db_data)

\* _combine_sentiment_data
CombineSentimentData(json_data, db_data) == Combine(<<>>, db_data \o json_data)

\* load_historical_sentiment
LoadHistoricalSentiment(stocks, rows) ==
    CombineSentimentData(LoadJsonSentimentData(stocks), LoadDatabaseSentimentData(rows))

\* a float times 100
Percent(x) == IF IsNa(x) THEN NaN ELSE Float(x.value * 100)

\* lines 137-139 of get_price_data: the columns added to a history
WithPriceChanges(hist) ==
    [i \in 1..Len(hist) |->
        [date |-> hist[i].date,
         Close |-> hist[i].Close,
         price_change_1d |-> Percent(PctChange(hist, i, 1)),
         price_change_3d |-> Percent(PctChange(hist, i, 3)),
         price_change_7d |-> Percent(PctChange(hist, i, 7))]]

\* get_price_data: symbols with an empty history are left out
PriceData(symbols, history) ==
    [symbol \in { x \in symbols : Get(history, x, <<>>) # <<>> } |->
        WithPriceChanges(history[symbol])]

\* line 206: f'price_change_{period}'
ChangeColumn(period) ==
    CASE period = "1d" -> "price_change_1d"
      [] period = "3d" -> "price_change_3d"
      [] period = "7d" -> "price_change_7d"

\* line 192: min(trading_dates, key=...) returns the first date at the least distance
ClosestRow(price_hist, sentiment_date) ==
    First({ i \in 1..Len(price_hist) :
              \A j \in 1..Len(price_hist) :
                  Abs(price_hist[i].date - sentiment_date)
                      <= Abs(price_hist[j].date - sentiment_date) })

\* lines 178-179
NoCounts == [period \in Periods |-> 0]

\* lines 205-223: the counts after one item, for a period
CountPrediction(counts, kind, period, sentiment_score, price_row) ==
    LET price_change == price_row[ChangeColumn(period)]
        sentiment_bullish == sentiment_score > 1000
        sentiment_bearish == sentiment_score < -1000
        price_up == price_change.value > 0
        prediction_made == sentiment_bullish \/ sentiment_bearish
        is_correct == \/ sentiment_bullish /\ price_up
                      \/ sentiment_bearish /\ ~price_up
    IN IF IsNa(price_change) \/ ~prediction_made THEN counts[period]
       ELSE IF kind = "total" \/ is_correct THEN counts[period] + 1
       ELSE counts[period]

\* lines 182-239: the body of the loop over sentiment_data
CorrelateItem(state, sentiment_item, price_data) ==
    IF sentiment_item.symbol \notin DOMAIN price_data THEN state
    ELSE
    LET price_hist == price_data[sentiment_item.symbol]
        price_row == price_hist[ClosestRow(price_hist, sentiment_item.date)]
        sentiment_score == sentiment_item.sentiment_score
    IN IF Abs(price_row.date - sentiment_item.date) > 3 THEN state
       ELSE [results |->
                 Append(state.results,
                        [symbol |-> sentiment_item.symbol,
                         date |-> sentiment_item.date,
                         sentiment_score |-> sentiment_score,
                         mentions |-> sentiment_item.mentions,
                         confidence |-> sentiment_item.confidence,
                         price_change_1d |-> price_row.price_change_1d,
                         price_change_3d |-> price_row.price_change_3d,
                         price_change_7d |-> price_row.price_change_7d,
                         current_price |-> price_row.Close]),
             total_predictions |->
                 [period \in Periods |->
                     CountPrediction(state.total_predictions, "total", period,
                                     sentiment_score, price_row)],
             correct_predictions |->
                 [period \in Periods |->
                     CountPrediction(state.correct_predictions, "correct", period,
                                     sentiment_score, price_row)]]

RECURSIVE CorrelateItems(_, _, _)
CorrelateItems(state, sentiment_data, price_data) ==
    IF sentiment_data = <<>> THEN state
    ELSE CorrelateItems(CorrelateItem(state, Head(sentiment_data), price_data),
                        Tail(sentiment_data), price_data)

\* _correlate_sentiment_with_prices
CorrelateSentimentWithPrices(sentiment_data, price_data) ==
    LET state == CorrelateItems([results |-> <<>>, total_predictions |-> NoCounts,
                                 correct_predictions |-> NoCounts],
                                sentiment_data, price_data)
    IN [results |-> state.results,
        accuracies |->
            [period \in Periods |->
                IF state.total_predictions[period] > 0
                THEN Ratio(state.correct_predictions[period],
                           state.total_predictions[period]) * 100
                ELSE 0],
        total_predictions |-> state.total_predictions,
        correct_predictions |-> state.correct_predictions]

(***************************************************************************)
(* Calls in progress.  A frame holds the arguments and the local variables *)
(* of one call of analyze_posts, analyze_tweets or rank_stocks on the      *)
(* shared SentimentAnalyzer and StockRanker: the position of its loop, the *)
(* accumulators symbol_sentiments and ranked_stocks, and its return value. *)
(***************************************************************************)
Runs == {1, 2}

\* the posts and tweets handed to the calls in progress
FlightPosts ==
    { [symbols |-> <<"AAPL">>, score |-> 3, upvote_ratio |-> 2,
       sentiment |-> [positive |-> 60000, negative |-> 0, neutral |-> 40000,
                      compound |-> 60000]],
      [symbols |-> <<"AAPL", "TSLA">>, score |-> 0, upvote_ratio |-> 1,
       sentiment |-> [positive |-> 0, negative |-> 20000, neutral |-> 80000,
                      compound |-> -20000]] }

FlightTweets ==
    { [symbols |-> <<"TSLA">>, like_count |-> 2, retweet_count |-> 1,
       sentiment |-> [positive |-> 60000, negative |-> 0, neutral |-> 40000,
                      compound |-> 60000]] }

\* the pairs of sentiment results handed to rank_stocks
FlightSignals ==
    { [reddit |-> [AAPL |-> [compound |-> 20000, positive |-> 40000,
                             negative |-> 10000, mentions |-> 2, total_weight |-> 8],
                   TSLA |-> [compound |-> -40000, positive |-> 10000,
                             negative |-> 60000, mentions |-> 3, total_weight |-> 6]],
       twitter |-> [AAPL |-> [compound |-> 30000, positive |-> 60000,
                              negative |-> 30000, mentions |-> 4, total_weight |-> 10]]],
      [reddit |-> [TSLA |-> [compound |-> 20000, positive |-> 40000,
                             negative |-> 10000, mentions |-> 2, total_weight |-> 8]],
       twitter |-> [TSLA |-> [compound |-> 30000, positive |-> 60000,
                              negative |-> 30000, mentions |-> 5, total_weight |-> 40]]] }

\* the lists of at most n elements of a set
ListsOf(S, n) == UNION { [1..k -> S] : k \in 0..n }

\* the frame of a call that has just been entered
Frame(method, items, reddit, twitter, order) ==
    [method |-> method, items |-> items, reddit |-> reddit, twitter |-> twitter,
     order |-> order, pc |-> 0, symbol_sentiments |-> EmptyDict,
     ranked_stocks |-> <<>>, result |-> <<>>, returned |-> FALSE,
     interleaved |-> FALSE]

\* another call has begun its loop and has not returned
OtherInLoop(run, frames) ==
    \E other \in DOMAIN frames \ {run} :
        frames[other].pc >= 1 /\ ~frames[other].returned

\* whether a call took a step while another call was in its loop
Interleaved(run, frames) == frames[run].interleaved \/ OtherInLoop(run, frames)

\* the local variables a call would use were they fields of the shared
\* instance: those of the call entered first
LocalsOfFirstCall(run, frames) ==
    frames[CHOOSE r \in DOMAIN frames : \A o \in DOMAIN frames : r <= o]

\* lines 148-149 and 190-191 of sentiment_analyzer.py, line 43 of
\* stock_ranker.py: the accumulators are local variables of the call
Locals(run, frames) == frames[run]

\* lines 162-168 and 202-208: the entries of an item are appended to the lists
\* of its symbols
AppendEntries(symbol_sentiments, item, source) ==
    LET entry == IF source = "reddit" THEN PostEntry(item) ELSE TweetEntry(item)
        named == { item.symbols[i] : i \in 1..Len(item.symbols) }
    IN [symbol \in DOMAIN symbol_sentiments \cup named |->
           Get(symbol_sentiments, symbol, <<>>)
               \o [i \in 1..Occurrences(symbol, item.symbols) |-> entry]]

\* lines 173-178 and 213-218: the return value (the analyzed items left out)
AnalysisResult(symbol_sentiments, items) ==
    [symbol_sentiment |-> AggregateSentimentBySymbol(symbol_sentiments),
     total |-> Len(items),
     symbols_mentioned |-> DOMAIN symbol_sentiments]

SourceOf(method) == IF method = "analyze_posts" THEN "reddit" ELSE "twitter"

(***************************************************************************)
(* Database                                                                *)
(*                                                                         *)
(* A timestamp is a number of seconds; CURRENT_TIMESTAMP has the           *)
(* resolution of one second and DATE(created_at) is the day of a           *)
(* timestamp.  The table stock_rankings is the list of its rows by id.     *)
(***************************************************************************)
\* the seconds the clock takes: a few seconds of a few days
Instants ==
    { d * 86400 + sec : d \in 0..MaxInstant, sec \in 0..MaxInstant } \cap
    { t \in 0..(MaxInstant * 86400 + MaxInstant) :
        (t \div 86400) + (t % 86400) <= MaxInstant }

\* the lists main.py hands to store_rankings: ranked stocks of rank_stocks
RankingLists ==
    { <<[symbol |-> "AAPL", rank |-> 1, composite_score |-> 8000]>>,
      <<[symbol |-> "AAPL", rank |-> 1, composite_score |-> 6000],
        [symbol |-> "TSLA", rank |-> 2, composite_score |-> 5000]>>,
      <<[symbol |-> "TSLA", rank |-> 1, composite_score |-> 7000],
        [symbol |-> "AAPL", rank |-> 2, composite_score |-> 4000]>> }

\* the seconds at which the INSERTs of one call execute: not before the clock,
\* each in the second of the one before it or in the next
InsertTimes(n, t) ==
    { times \in [1..n -> Instants] :
        /\ \A i \in 1..n : times[i] >= t
        /\ \A i \in 1..(n - 1) : times[i + 1] \in {times[i], times[i] + 1} }

\* lines 253-278: the row an INSERT adds; id is AUTOINCREMENT and created_at
\* defaults to CURRENT_TIMESTAMP at the INSERT
RankingRow(stock, id, created_at) ==
    [id |-> id,
     symbol |-> stock.symbol,
     rank |-> stock.rank,
     composite_score |-> stock.composite_score,
     created_at |-> created_at]

\* lines 252-278: the rows of the first n INSERTs of the loop
InsertedRows(rankings, n, first_id, times) ==
    [i \in 1..n |-> RankingRow(rankings[i], first_id + i - 1, times[i])]

\* a commit that replaces the rows of the symbols it inserts
CommitReplacing(table, inserted) ==
    SelectSeq(table, LAMBDA row : \A i \in 1..Len(inserted) :
                                     inserted[i].symbol # row.symbol) \o inserted

\* line 280: conn.commit() makes the inserted rows part of the table
Commit(table, inserted) == table \o inserted

\* an exit that keeps the rows inserted before the exception
RollbackNothing(table, inserted) == table \o inserted

\* line 249: leaving the with block on an exception rolls the transaction
\* back, the rows inserted so far are gone
Rollback(table, inserted) == table

\* line 295: SELECT MAX(created_at) FROM stock_rankings, NULL on no rows
MaxCreatedAt(table) ==
    IF table = <<>> THEN NaN
    ELSE Float(CHOOSE t \in { table[i].created_at : i \in 1..Len(table) } :
                   \A i \in 1..Len(table) : table[i].created_at <= t)

RECURSIVE InsertByRank(_, _)
\* a row goes behind every row whose rank is at most its own
InsertByRank(sorted, row) ==
    IF sorted = <<>> THEN <<row>>
    ELSE IF Head(sorted).rank <= row.rank
         THEN <<Head(sorted)>> \o InsertByRank(Tail(sorted), row)
         ELSE <<row>> \o sorted

RECURSIVE OrderByRank(_)
\* line 297: ORDER BY rank; rows of equal rank stay in the order of the table
OrderByRank(rows) ==
    IF rows = <<>> THEN <<>>
    ELSE InsertByRank(OrderByRank(SubSeq(rows, 1, Len(rows) - 1)), rows[Len(rows)])

\* line 298: LIMIT ?
Limit(rows, limit) == SubSeq(rows, 1, Min(limit, Len(rows)))

\* lines 292-299: the query of get_latest_rankings
LatestRankings(table, limit) ==
    LET latest == MaxCreatedAt(table)
    IN IF IsNa(latest) THEN <<>>
       ELSE Limit(OrderByRank(SelectSeq(table,
                LAMBDA row : row.created_at = latest.value)), limit)

\* lines 347, 352 and 357: created_at < cutoff_date.  The cutoff is
\* datetime.now() - timedelta(days), bound as text with its microseconds, so a
\* timestamp of the cutoff's own second compares less than it
OlderThan(created_at, cutoff) == created_at <= cutoff

\* lines 359-362: SELECT MIN(id) ... WHERE created_at < ? GROUP BY
\* DATE(created_at), symbol
KeptIds(table, cutoff) ==
    LET old == { i \in 1..Len(table) : OlderThan(table[i].created_at, cutoff) }
    IN { table[i].id : i \in { j \in old :
            \A k \in old :
                DateOf(table[k].created_at) = DateOf(table[j].created_at)
                    /\ table[k].symbol = table[j].symbol
                => table[j].id <= table[k].id } }

\* lines 355-364: DELETE FROM stock_rankings WHERE created_at < ? AND id NOT IN
CleanupRankings(table, cutoff) ==
    SelectSeq(table, LAMBDA row : ~(/\ OlderThan(row.created_at, cutoff)
                                    /\ row.id \notin KeptIds(table, cutoff)))

\* line 352: DELETE FROM symbol_sentiment_history WHERE created_at < ?
CleanupSentimentHistory(table, cutoff) ==
    SelectSeq(table, LAMBDA row : ~OlderThan(row.created_at, cutoff))

(***************************************************************************)
(* State machine.                                                          *)
(***************************************************************************)
\* StockRanker.__init__ reads the analysis configuration
Configured(configs) ==
    \E c \in configs :
        /\ min_mentions = c.min_mentions
        /\ reddit_weight = c.weight_reddit
        /\ twitter_weight = c.weight_twitter

\* nothing has been handed over and nothing has run
NothingRun ==
    /\ ranker_error = "none"
    /\ now = 0
    /\ reddit_symbols = EmptyDict
    /\ twitter_symbols = EmptyDict
    /\ ranked_stocks = <<>>
    /\ first_ranked = <<>>
    /\ runs = 0
    /\ batch_source = "reddit"
    /\ batch_items = <<>>
    /\ symbol_sentiment = EmptyDict
    /\ symbols_mentioned = {}
    /\ analysis_outcome = "idle"
    /\ sentiment_history = <<>>
    /\ price_history = EmptyDict
    /\ accuracy_results = EmptyDict
    /\ confidence_analysis = EmptyDict
    /\ correlation = EmptyDict
    /\ called = {}
    /\ sentiment_table = <<>>
    /\ historical_sentiment = <<>>
    /\ stock_rankings = <<>>
    /\ next_id = 1
    /\ clock = 0
    /\ latest_rankings = <<>>
    /\ db_log = "none"
    /\ last_stored = [rankings |-> <<>>, failed_insert |-> 0, rows |-> <<>>]
    /\ cutoff_date = 0
    /\ db_last = "none"
    /\ db_called = {}
    /\ in_flight = EmptyDict

Init ==
    /\ Configured(AnalysisConfigs)
    /\ NothingRun

\* the caller prepares reddit_sentiment['symbol_sentiment'] for a new run
SetRedditSignal(symbol, signal) ==
    /\ runs = 0
    /\ reddit_symbols' = (symbol :> signal) @@ reddit_symbols
    /\ reddit_symbols' # reddit_symbols
    /\ UNCHANGED <<min_mentions, reddit_weight, twitter_weight, ranker_error, now,
                   twitter_symbols, ranked_stocks, first_ranked, runs>>
    /\ UNCHANGED analyzerVars
    /\ UNCHANGED backtestVars
    /\ UNCHANGED databaseVars
    /\ UNCHANGED flightVars

\* the caller prepares twitter_sentiment['symbol_sentiment'] for a new run
SetTwitterSignal(symbol, signal) ==
    /\ runs = 0
    /\ twitter_symbols' = (symbol :> signal) @@ twitter_symbols
    /\ twitter_symbols' # twitter_symbols
    /\ UNCHANGED <<min_mentions, reddit_weight, twitter_weight, ranker_error, now,
                   reddit_symbols, ranked_stocks, first_ranked, runs>>
    /\ UNCHANGED analyzerVars
    /\ UNCHANGED backtestVars
    /\ UNCHANGED databaseVars
    /\ UNCHANGED flightVars

\* StockRanker.rank_stocks(reddit_sentiment, twitter_sentiment); datetime.now()
\* returns t, not before the value it returned last, and the set all_symbols
\* is iterated in some order
RankStocks(order, t) ==
    /\ runs < 2
    /\ now' = t
    /\ ranked_stocks' = RankStocksResult(reddit_symbols, twitter_symbols, order, t)
    /\ first_ranked' = IF runs = 0 THEN ranked_stocks' ELSE first_ranked
    /\ runs' = runs + 1
    /\ UNCHANGED <<min_mentions, reddit_weight, twitter_weight, ranker_error,
                   reddit_symbols, twitter_symbols>>
    /\ UNCHANGED analyzerVars
    /\ UNCHANGED backtestVars
    /\ UNCHANGED databaseVars
    /\ UNCHANGED flightVars

\* a scraper hands one more post over (RedditScraper, or a test's mock_posts)
ScrapePost(post) ==
    /\ analysis_outcome = "idle"
    /\ batch_items = <<>> \/ batch_source = "reddit"
    /\ Len(batch_items) < MaxItems
    /\ batch_source' = "reddit"
    /\ batch_items' = Append(batch_items, post)
    /\ UNCHANGED <<symbol_sentiment, symbols_mentioned, analysis_outcome>>
    /\ UNCHANGED rankerVars
    /\ UNCHANGED backtestVars
    /\ UNCHANGED databaseVars
    /\ UNCHANGED flightVars

\* a scraper hands one more tweet over (TwitterScraper, or a test's mock data)
ScrapeTweet(tweet) ==
    /\ analysis_outcome = "idle"
    /\ batch_items = <<>> \/ batch_source = "twitter"
    /\ Len(batch_items) < MaxItems
    /\ batch_source' = "twitter"
    /\ batch_items' = Append(batch_items, tweet)
    /\ UNCHANGED <<symbol_sentiment, symbols_mentioned, analysis_outcome>>
    /\ UNCHANGED rankerVars
    /\ UNCHANGED backtestVars
    /\ UNCHANGED databaseVars
    /\ UNCHANGED flightVars

\* SentimentAnalyzer.analyze_posts(posts)
AnalyzePosts ==
    /\ analysis_outcome = "idle"
    /\ batch_items = <<>> \/ batch_source = "reddit"
    /\ batch_source' = "reddit"
    /\ symbol_sentiment' = AggregateSentimentBySymbol(SymbolSentiments(batch_items, "reddit"))
    /\ symbols_mentioned' = DOMAIN SymbolSentiments(batch_items, "reddit")
    /\ analysis_outcome' = "returned"
    /\ UNCHANGED batch_items
    /\ UNCHANGED rankerVars
    /\ UNCHANGED backtestVars
    /\ UNCHANGED databaseVars
    /\ UNCHANGED flightVars

\* SentimentAnalyzer.analyze_tweets(tweets)
AnalyzeTweets ==
    /\ analysis_outcome = "idle"
    /\ batch_items = <<>> \/ batch_source = "twitter"
    /\ batch_source' = "twitter"
    /\ symbol_sentiment' = AggregateSentimentBySymbol(SymbolSentiments(batch_items, "twitter"))
    /\ symbols_mentioned' = DOMAIN SymbolSentiments(batch_items, "twitter")
    /\ analysis_outcome' = "returned"
    /\ UNCHANGED batch_items
    /\ UNCHANGED rankerVars
    /\ UNCHANGED backtestVars
    /\ UNCHANGED databaseVars
    /\ UNCHANGED flightVars

\* the history holds one more stored ranking of a symbol: a row the query of
\* get_historical_sentiment_data returns, a stock of a daily JSON file
AddHistoricalSentiment(record) ==
    /\ called = {}
    /\ Len(sentiment_history) + Len(sentiment_table) < MaxRecords
    /\ sentiment_history' = Append(sentiment_history, record)
    /\ UNCHANGED <<price_history, accuracy_results, confidence_analysis, correlation,
                   called, sentiment_table, historical_sentiment>>
    /\ UNCHANGED rankerVars
    /\ UNCHANGED analyzerVars
    /\ UNCHANGED databaseVars
    /\ UNCHANGED flightVars

\* the market has a price history for a symbol, served by yfinance
ListPrices(symbol, hist) ==
    /\ called = {}
    /\ price_history' = (symbol :> hist) @@ price_history
    /\ price_history' # price_history
    /\ UNCHANGED <<sentiment_history, accuracy_results, confidence_analysis,
                   correlation, called, sentiment_table, historical_sentiment>>
    /\ UNCHANGED rankerVars
    /\ UNCHANGED analyzerVars
    /\ UNCHANGED databaseVars
    /\ UNCHANGED flightVars

\* SentimentBacktester.run_comprehensive_backtest: the stored rankings are the
\* rows of sentiment_df; an empty frame or no price data returns {} early
RunComprehensiveBacktest ==
    /\ "run_comprehensive_backtest" \notin called
    /\ LET sentiment_df == sentiment_history
           symbols == SymbolsOf(sentiment_df)
           price_data == StockPriceData(symbols, price_history)
       IN IF sentiment_df = <<>> \/ DOMAIN price_data = {}
          THEN /\ accuracy_results' = EmptyDict
               /\ confidence_analysis' = EmptyDict
          ELSE /\ accuracy_results' = CalculateSentimentAccuracy(sentiment_df, price_data)
               /\ confidence_analysis' = AnalyzeConfidenceCorrelation(accuracy_results')
    /\ called' = called \cup {"run_comprehensive_backtest"}
    /\ UNCHANGED <<sentiment_history, price_history, correlation, sentiment_table,
                   historical_sentiment>>
    /\ UNCHANGED rankerVars
    /\ UNCHANGED analyzerVars
    /\ UNCHANGED databaseVars
    /\ UNCHANGED flightVars

\* store_reddit_data / store_twitter_data insert a row of a symbol into
\* symbol_sentiment_history, stamped with the clock's present second
AddSentimentRow(row) ==
    /\ called = {}
    /\ Len(sentiment_history) + Len(sentiment_table) < MaxRecords
    /\ \A i \in 1..Len(sentiment_table) : sentiment_table[i].created_at <= row.created_at
    /\ sentiment_table' = Append(sentiment_table, row)
    /\ UNCHANGED <<sentiment_history, price_history, accuracy_results,
                   confidence_analysis, correlation, called, historical_sentiment>>
    /\ UNCHANGED rankerVars
    /\ UNCHANGED analyzerVars
    /\ UNCHANGED databaseVars
    /\ UNCHANGED flightVars

\* SentimentPriceAnalyzer.analyze_sentiment_price_correlation: the stored
\* rankings are the top_rankings of the daily JSON files, the database query
\* reads symbol_sentiment_history; without sentiment data the method returns
\* None
AnalyzeSentimentPriceCorrelation ==
    /\ "analyze_sentiment_price_correlation" \notin called
    /\ historical_sentiment' = LoadHistoricalSentiment(sentiment_history, sentiment_table)
    /\ LET sentiment_data == historical_sentiment'
           symbols == SymbolsOf(sentiment_data)
           price_data == PriceData(symbols, price_history)
       IN IF sentiment_data = <<>>
          THEN correlation' = EmptyDict
          ELSE correlation' = CorrelateSentimentWithPrices(sentiment_data, price_data)
    /\ called' = called \cup {"analyze_sentiment_price_correlation"}
    /\ UNCHANGED <<sentiment_history, price_history, accuracy_results,
                   confidence_analysis, sentiment_table>>
    /\ UNCHANGED rankerVars
    /\ UNCHANGED analyzerVars
    /\ UNCHANGED databaseVars
    /\ UNCHANGED flightVars

\* Database.store_rankings(rankings): the INSERTs execute at the seconds
\* times, and INSERT number failed_insert raises (0: none does)
StoreRankings(rankings, times, failed_insert) ==
    /\ next_id + Len(rankings) - 1 <= MaxRows
    /\ IF failed_insert = 0
       THEN LET inserted == InsertedRows(rankings, Len(rankings), next_id, times)
            IN /\ stock_rankings' = Commit(stock_rankings, inserted)
               /\ next_id' = next_id + Len(rankings)
               /\ clock' = times[Len(rankings)]
               /\ db_log' = "Stored rankings"
               /\ last_stored' = [rankings |-> rankings, failed_insert |-> 0,
                                  rows |-> inserted]
       ELSE LET inserted == InsertedRows(rankings, failed_insert - 1, next_id, times)
            IN /\ stock_rankings' = Rollback(stock_rankings, inserted)
               /\ next_id' = next_id
               /\ clock' = times[failed_insert]
               /\ db_log' = "Error storing rankings"
               /\ last_stored' = [rankings |-> rankings,
                                  failed_insert |-> failed_insert, rows |-> <<>>]
    /\ db_last' = "store_rankings"
    /\ db_called' = db_called \cup {"store_rankings"}
    /\ UNCHANGED <<latest_rankings, cutoff_date>>
    /\ UNCHANGED rankerVars
    /\ UNCHANGED analyzerVars
    /\ UNCHANGED backtestVars
    /\ UNCHANGED flightVars

\* Database.get_latest_rankings(limit)
GetLatestRankings(limit) ==
    /\ latest_rankings' = LatestRankings(stock_rankings, limit)
    /\ db_last' = "get_latest_rankings"
    /\ db_called' = db_called \cup {"get_latest_rankings"}
    /\ UNCHANGED <<stock_rankings, next_id, clock, db_log, last_stored, cutoff_date>>
    /\ UNCHANGED rankerVars
    /\ UNCHANGED analyzerVars
    /\ UNCHANGED backtestVars
    /\ UNCHANGED flightVars

\* Database.cleanup_old_data(days), called when datetime.now() is t
CleanupOldData(days, t) ==
    /\ t >= clock
    /\ clock' = t
    /\ cutoff_date' = t - days * 86400
    /\ sentiment_table' = CleanupSentimentHistory(sentiment_table, cutoff_date')
    /\ stock_rankings' = CleanupRankings(stock_rankings, cutoff_date')
    /\ db_log' = "Cleaned up data"
    /\ db_last' = "cleanup_old_data"
    /\ db_called' = db_called \cup {"cleanup_old_data"}
    /\ UNCHANGED <<next_id, latest_rankings, last_stored>>
    /\ UNCHANGED <<sentiment_history, price_history, accuracy_results,
                   confidence_analysis, correlation, called, historical_sentiment>>
    /\ UNCHANGED rankerVars
    /\ UNCHANGED analyzerVars
    /\ UNCHANGED flightVars

\* a caller enters analyze_posts(posts) or analyze_tweets(tweets)
CallAnalyze(run, method, items) ==
    /\ run \notin DOMAIN in_flight
    /\ in_flight' = (run :> Frame(method, items, EmptyDict, EmptyDict, <<>>)) @@ in_flight
    /\ UNCHANGED rankerVars
    /\ UNCHANGED analyzerVars
    /\ UNCHANGED backtestVars
    /\ UNCHANGED databaseVars

\* a caller enters rank_stocks(reddit_sentiment, twitter_sentiment); the set
\* all_symbols will be iterated in some order
CallRankStocks(run, signals, order) ==
    /\ run \notin DOMAIN in_flight
    /\ in_flight' = (run :> Frame("rank_stocks", <<>>, signals.reddit, signals.twitter,
                                  order)) @@ in_flight
    /\ UNCHANGED rankerVars
    /\ UNCHANGED analyzerVars
    /\ UNCHANGED backtestVars
    /\ UNCHANGED databaseVars

\* one pass of the loop of analyze_posts (lines 151-168) or analyze_tweets
\* (lines 193-208)
AnalyzeItem(run) ==
    /\ run \in DOMAIN in_flight
    /\ in_flight[run].method \in {"analyze_posts", "analyze_tweets"}
    /\ ~in_flight[run].returned
    /\ in_flight[run].pc < Len(in_flight[run].items)
    /\ LET frame == in_flight[run]
           item == frame.items[frame.pc + 1]
       IN in_flight' =
              [in_flight EXCEPT
                  ![run].symbol_sentiments =
                      AppendEntries(Locals(run, in_flight).symbol_sentiments, item,
                                    SourceOf(frame.method)),
                  ![run].pc = frame.pc + 1,
                  ![run].interleaved = Interleaved(run, in_flight)]
    /\ UNCHANGED rankerVars
    /\ UNCHANGED analyzerVars
    /\ UNCHANGED backtestVars
    /\ UNCHANGED databaseVars

\* lines 170-178 and 210-218: the call aggregates and returns
AnalyzeReturn(run) ==
    /\ run \in DOMAIN in_flight
    /\ in_flight[run].method \in {"analyze_posts", "analyze_tweets"}
    /\ ~in_flight[run].returned
    /\ in_flight[run].pc = Len(in_flight[run].items)
    /\ in_flight' =
           [in_flight EXCEPT
               ![run].result = AnalysisResult(Locals(run, in_flight).symbol_sentiments,
                                              in_flight[run].items),
               ![run].returned = TRUE,
               ![run].interleaved = Interleaved(run, in_flight)]
    /\ UNCHANGED rankerVars
    /\ UNCHANGED analyzerVars
    /\ UNCHANGED backtestVars
    /\ UNCHANGED databaseVars

\* one pass of the loop of rank_stocks (lines 45-54)
RankSymbol(run) ==
    /\ run \in DOMAIN in_flight
    /\ in_flight[run].method = "rank_stocks"
    /\ ~in_flight[run].returned
    /\ in_flight[run].pc < Len(in_flight[run].order)
    /\ LET frame == in_flight[run]
           symbol == frame.order[frame.pc + 1]
           stock_metrics ==
               CalculateStockMetrics(symbol, Get(frame.reddit, symbol, EmptyDict),
                                     Get(frame.twitter, symbol, EmptyDict), now)
           ranked == Locals(run, in_flight).ranked_stocks
       IN in_flight' =
              [in_flight EXCEPT
                  ![run].ranked_stocks =
                      IF Included(stock_metrics)
                      THEN Append(ranked, stock_metrics)
                      ELSE ranked,
                  ![run].pc = frame.pc + 1,
                  ![run].interleaved = Interleaved(run, in_flight)]
    /\ UNCHANGED rankerVars
    /\ UNCHANGED analyzerVars
    /\ UNCHANGED backtestVars
    /\ UNCHANGED databaseVars

\* lines 56-65 of rank_stocks: the call sorts, numbers and returns
RankReturn(run) ==
    /\ run \in DOMAIN in_flight
    /\ in_flight[run].method = "rank_stocks"
    /\ ~in_flight[run].returned
    /\ in_flight[run].pc = Len(in_flight[run].order)
    /\ in_flight' =
           [in_flight EXCEPT
               ![run].result =
                   AddRankings(SortByCompositeScore(Locals(run, in_flight).ranked_stocks)),
               ![run].returned = TRUE,
               ![run].interleaved = Interleaved(run, in_flight)]
    /\ UNCHANGED rankerVars
    /\ UNCHANGED analyzerVars
    /\ UNCHANGED backtestVars
    /\ UNCHANGED databaseVars

Posts ==
    [symbols : SymbolLists, sentiment : Polarities, score : PostScores,
     upvote_ratio : UpvoteRatios]

Tweets ==
    [symbols : SymbolLists, sentiment : Polarities, like_count : LikeCounts,
     retweet_count : RetweetCounts]

\* the ranker: a caller builds the two sentiment dicts and ranks them
Next ==
    \/ \E symbol \in Symbols, signal \in RedditSignals : SetRedditSignal(symbol, signal)
    \/ \E symbol \in Symbols, signal \in TwitterSignals : SetTwitterSignal(symbol, signal)
    \/ \E order \in IterationOrders(DOMAIN reddit_symbols \cup DOMAIN twitter_symbols),
          t \in now..MaxClock :
          RankStocks(order, t)

Spec == Init /\ [][Next]_vars

\* the ranker on signals around the thresholds of the confidence score and of
\* the min_mentions filter
InitThreshold ==
    /\ Configured(ThresholdConfigs)
    /\ NothingRun

NextThreshold ==
    \/ \E symbol \in ThresholdSymbols, signal \in ThresholdRedditSignals :
          SetRedditSignal(symbol, signal)
    \/ \E symbol \in ThresholdSymbols, signal \in ThresholdTwitterSignals :
          SetTwitterSignal(symbol, signal)
    \/ \E order \in IterationOrders(DOMAIN reddit_symbols \cup DOMAIN twitter_symbols),
          t \in now..MaxClock :
          RankStocks(order, t)

SpecThreshold == InitThreshold /\ [][NextThreshold]_vars

\* the analyzer, with the ranker in its default configuration
InitAgg ==
    /\ Init
    /\ min_mentions = 5
    /\ reddit_weight = 6
    /\ twitter_weight = 4

NextAgg ==
    \/ \E post \in Posts : ScrapePost(post)
    \/ \E tweet \in Tweets : ScrapeTweet(tweet)
    \/ AnalyzePosts
    \/ AnalyzeTweets

SpecAgg == InitAgg /\ [][NextAgg]_vars

\* the two backtests, on the stored rankings and the price histories
InitBacktest == InitAgg

NextBacktest ==
    \/ \E record \in StoredRankings : AddHistoricalSentiment(record)
    \/ \E row \in SentimentRows : AddSentimentRow(row)
    \/ \E symbol \in BacktestSymbols, hist \in PriceSeries : ListPrices(symbol, hist)
    \/ RunComprehensiveBacktest
    \/ AnalyzeSentimentPriceCorrelation

SpecBacktest == InitBacktest /\ [][NextBacktest]_vars

\* two callers on one SentimentAnalyzer and one StockRanker, their calls
\* interleaved step by step
InitFlight ==
    /\ Configured(ThresholdConfigs)
    /\ NothingRun

NextFlight ==
    \/ \E run \in Runs, posts \in ListsOf(FlightPosts, MaxItems) :
          CallAnalyze(run, "analyze_posts", posts)
    \/ \E run \in Runs, tweets \in ListsOf(FlightTweets, MaxItems) :
          CallAnalyze(run, "analyze_tweets", tweets)
    \/ \E run \in Runs, signals \in FlightSignals :
          \E order \in IterationOrders(DOMAIN signals.reddit \cup DOMAIN signals.twitter) :
              CallRankStocks(run, signals, order)
    \/ \E run \in Runs : AnalyzeItem(run)
    \/ \E run \in Runs : AnalyzeReturn(run)
    \/ \E run \in Runs : RankSymbol(run)
    \/ \E run \in Runs : RankReturn(run)

SpecFlight == InitFlight /\ [][NextFlight]_vars

\* the record store: runs store their rankings, readers ask for the latest
\* and the old rows are cleaned up
Limits == {1, 50}

CleanupDays == {0, 1}

InitDatabase == InitAgg

NextDatabase ==
    \/ \E rankings \in RankingLists :
          \E times \in InsertTimes(Len(rankings), clock),
             failed_insert \in 0..Len(rankings) :
              StoreRankings(rankings, times, failed_insert)
    \/ \E limit \in Limits : GetLatestRankings(limit)
    \/ \E days \in CleanupDays, t \in Instants : CleanupOldData(days, t)

SpecDatabase == InitDatabase /\ [][NextDatabase]_vars

(***************************************************************************)
(* Properties of StockRanker.rank_stocks (specification Spec).             *)
(***************************************************************************)
Ranked(i) == ranked_stocks[i]

\* C1: the list returned by rank_stocks is ordered by non-increasing
\* composite_score, the record at position i (counted from 1) has rank i, and
\* no returned record has reddit_mentions + twitter_mentions below min_mentions.
C1_SortedRankedFiltered ==
    runs > 0 =>
        /\ \A i \in 1..(Len(ranked_stocks) - 1) :
              Ranked(i).composite_score >= Ranked(i + 1).composite_score
        /\ \A i \in 1..Len(ranked_stocks) : Ranked(i).rank = i
        /\ \A i \in 1..Len(ranked_stocks) :
              Ranked(i).reddit_mentions + Ranked(i).twitter_mentions >= min_mentions

\* a run that returned two records with different scores and dropped a third
\* symbol for having too few mentions
C1_Witness ==
    /\ runs > 0
    /\ Len(ranked_stocks) = 2
    /\ Ranked(1).composite_score > Ranked(2).composite_score
    /\ Cardinality(DOMAIN reddit_symbols \cup DOMAIN twitter_symbols) = 3

\* C2: of two records with equal composite_score the one with the larger
\* total_mentions comes first, and with equal total_mentions the one with the
\* alphabetically smaller symbol comes first, whatever the iteration order.
C2_TieBreakByMentionsThenSymbol ==
    runs > 0 =>
        \A i, j \in 1..Len(ranked_stocks) :
            (i < j /\ Ranked(i).composite_score = Ranked(j).composite_score) =>
                \/ Ranked(i).total_mentions > Ranked(j).total_mentions
                \/ /\ Ranked(i).total_mentions = Ranked(j).total_mentions
                   /\ SymbolIndex(Ranked(i).symbol) < SymbolIndex(Ranked(j).symbol)

\* C3: a second rank_stocks call on the same inputs, weights and min_mentions
\* returns the same records in the same order with the same value in every field.
C3_SecondRunIdentical ==
    runs = 2 => ranked_stocks = first_ranked

WeightsInRange == reddit_weight \in 0..10 /\ twitter_weight \in 0..10

\* C8: a source weight outside [0, 1] is rejected with InvalidWeight when the
\* ranker is configured, and rank_stocks never scores with such a weight.
C8_OutOfRangeWeightRejected ==
    (runs > 0 /\ ~WeightsInRange /\ DOMAIN reddit_symbols \cup DOMAIN twitter_symbols # {}) =>
        (ranker_error = "InvalidWeight" /\ ranked_stocks = <<>>)

\* C9: confidence_score and momentum_score of every record lie in [0, 1]
\* (0..10000 in units of 1e-4); the inputs' mention counts and total weights
\* are non-negative.
C9_ScoresInUnitInterval ==
    runs > 0 =>
        \A i \in 1..Len(ranked_stocks) :
            /\ Ranked(i).confidence_score \in 0..10000
            /\ Ranked(i).momentum_score \in 0..10000

\* a record whose confidence reaches the cap 1.0 (18 mentions of the 8 needed,
\* engagement 180 of the 100 needed) with a momentum strictly inside (0, 1)
C9_Witness ==
    /\ runs > 0
    /\ \E i \in 1..Len(ranked_stocks) :
          /\ Ranked(i).confidence_score = 10000
          /\ Ranked(i).total_mentions = 18
          /\ Ranked(i).momentum_score \in 1..9999

\* source_weight * total_weight * compound summed over the sources, and the
\* sum of source_weight * total_weight, from the inputs of the run
C10_Numerator(symbol) ==
    Get(Get(reddit_symbols, symbol, EmptyDict), "compound", 0)
        * Get(Get(reddit_symbols, symbol, EmptyDict), "total_weight", 0) * reddit_weight
    + Get(Get(twitter_symbols, symbol, EmptyDict), "compound", 0)
        * Get(Get(twitter_symbols, symbol, EmptyDict), "total_weight", 0) * twitter_weight

C10_Denominator(symbol) ==
    Get(Get(reddit_symbols, symbol, EmptyDict), "total_weight", 0) * reddit_weight
    + Get(Get(twitter_symbols, symbol, EmptyDict), "total_weight", 0) * twitter_weight

C10_ExampleInputs ==
    /\ reddit_symbols = ("AAPL" :> [compound |-> 50000, positive |-> 70000,
                                    negative |-> 20000, mentions |-> 10,
                                    total_weight |-> 200])
    /\ twitter_symbols = EmptyDict
    /\ reddit_weight = 6 /\ twitter_weight = 4 /\ min_mentions = 5

C11_NoZeroMentionRecord ==
    runs > 0 => \A i \in 1..Len(ranked_stocks) : Ranked(i).total_mentions # 0

\* the symbols of the input, and the mentions a source reports for a symbol
InputSymbols == DOMAIN reddit_symbols \cup DOMAIN twitter_symbols

MentionsIn(source_symbols, symbol) ==
    Get(Get(source_symbols, symbol, EmptyDict), "mentions", 0)

PositionsOf(symbol) == { i \in 1..Len(ranked_stocks) : Ranked(i).symbol = symbol }

\* C12: every symbol of the input, in one source or in both, whose reddit
\* mentions plus twitter mentions reach min_mentions is returned by rank_stocks
\* exactly once, with total_mentions equal to the sum of the mentions of the
\* two sources.
C12_QualifyingSymbolRankedOnce ==
    runs > 0 =>
        \A symbol \in InputSymbols :
            LET mentions == MentionsIn(reddit_symbols, symbol)
                            + MentionsIn(twitter_symbols, symbol)
            IN mentions >= min_mentions =>
                  /\ Cardinality(PositionsOf(symbol)) = 1
                  /\ \A i \in PositionsOf(symbol) : Ranked(i).total_mentions = mentions

\* a run with min_mentions 5 that returned AAPL once for its 3 reddit and 8
\* twitter mentions, and a second symbol that only reddit mentions
C12_Witness ==
    /\ runs > 0
    /\ min_mentions = 5
    /\ MentionsIn(reddit_symbols, "AAPL") = 3
    /\ MentionsIn(twitter_symbols, "AAPL") = 8
    /\ \E i \in 1..Len(ranked_stocks) :
          Ranked(i).symbol = "AAPL" /\ Ranked(i).total_mentions = 11
    /\ \E i \in 1..Len(ranked_stocks) :
          Ranked(i).symbol = "TSLA" /\ Ranked(i).twitter_mentions = 0

\* the source-diversity component as the claim states it, in units of 1e-5
C13_ClaimedDiversity(reddit_mentions, twitter_mentions) ==
    IF reddit_mentions >= 3 /\ twitter_mentions >= 5 THEN 100000
    ELSE IF reddit_mentions >= 1 /\ twitter_mentions >= 1 THEN 80000
    ELSE 50000

\* what the confidence of a record, less its mention and engagement parts,
\* leaves for 0.4 * source_diversity, in units of 1e-6
C13_DiversityShare(stock) ==
    LET mention_confidence == Min(100000, DivNearest(stock.total_mentions * 100000, 8))
        engagement_quality ==
            Min(100000,
                DivNearest((stock.reddit_engagement + stock.twitter_engagement) * 100000, 200))
    IN stock.confidence_score * 100 - 4 * mention_confidence - 2 * engagement_quality

\* C13: the source-diversity component of the confidence of every returned
\* record is 1.0 when reddit has at least 3 and twitter at least 5 mentions,
\* otherwise 0.8 when both have at least one mention, otherwise 0.5 (the
\* confidence being rounded to 4 digits, the component is read to 1e-4).
C13_SourceDiversityThresholds ==
    runs > 0 =>
        \A i \in 1..Len(ranked_stocks) :
            Abs(C13_DiversityShare(Ranked(i))
                - 4 * C13_ClaimedDiversity(Ranked(i).reddit_mentions,
                                           Ranked(i).twitter_mentions)) <= 100

\* a run that returned one record exactly at both thresholds (3 and 5) and one
\* with reddit at its threshold and twitter one mention short of its own
C13_Witness ==
    /\ runs > 0
    /\ \E i \in 1..Len(ranked_stocks) :
          Ranked(i).reddit_mentions = 3 /\ Ranked(i).twitter_mentions = 5
    /\ \E i \in 1..Len(ranked_stocks) :
          Ranked(i).reddit_mentions = 3 /\ Ranked(i).twitter_mentions = 4

(***************************************************************************)
(* Properties of SentimentAnalyzer (specification SpecAgg).                *)
(***************************************************************************)
\* the engagement weight of an item of the batch, in halves: score times
\* upvote ratio of a post, likes plus retweets of a tweet
Engagement(item) ==
    IF batch_source = "reddit" THEN item.score * item.upvote_ratio
    ELSE 2 * (item.like_count + item.retweet_count)

Names(item, symbol) == InSeq(symbol, item.symbols)

RECURSIVE FlooredSum(_, _, _)
\* over the items naming the symbol: the sum of max(engagement, 1) * polarity[key],
\* or of max(engagement, 1) alone for the key "weight"
FlooredSum(items, symbol, key) ==
    IF items = <<>> THEN 0
    ELSE FlooredSum(Tail(items), symbol, key)
         + (IF ~Names(Head(items), symbol) THEN 0
            ELSE IF key = "weight" THEN Max(Engagement(Head(items)), 2)
            ELSE Max(Engagement(Head(items)), 2) * Head(items).sentiment[key])

\* x is sum / weight to the nearest unit
IsMean(x, sum, weight) == 2 * Abs(x * weight - sum) <= weight

PolarityKeys == {"positive", "negative", "compound"}

\* C4: each aggregated signal's mentions is the number of items of the batch
\* that name the symbol, and when every item's compound lies in [-1, 1] so does
\* every aggregated compound.
C4_MentionsCountedCompoundBounded ==
    analysis_outcome = "returned" =>
        /\ \A s \in DOMAIN symbol_sentiment :
              symbol_sentiment[s].mentions
                  = Cardinality({ i \in 1..Len(batch_items) : Names(batch_items[i], s) })
        /\ (\A i \in 1..Len(batch_items) :
                batch_items[i].sentiment.compound \in -100000..100000)
           => \A s \in DOMAIN symbol_sentiment :
                 symbol_sentiment[s].compound \in -100000..100000

\* two items naming AAPL, one of them naming TSLA too, with compounds of both
\* signs inside [-1, 1]
C4_Witness ==
    /\ analysis_outcome = "returned"
    /\ DOMAIN symbol_sentiment = {"AAPL", "TSLA"}
    /\ symbol_sentiment["AAPL"].mentions = 2
    /\ symbol_sentiment["TSLA"].mentions = 1
    /\ \A i \in 1..Len(batch_items) : batch_items[i].sentiment.compound \in -100000..100000
    /\ \E i, j \in 1..Len(batch_items) :
          batch_items[i].sentiment.compound < 0 /\ batch_items[j].sentiment.compound > 0

\* weights 3 and 1 with compounds 0.6 and -0.2, both naming AAPL
C5_ExampleBatch ==
    /\ Len(batch_items) = 2
    /\ \E i, j \in 1..2 :
          /\ i # j
          /\ Names(batch_items[i], "AAPL") /\ Names(batch_items[j], "AAPL")
          /\ Max(Engagement(batch_items[i]), 2) = 6
          /\ batch_items[i].sentiment.compound = 60000
          /\ Max(Engagement(batch_items[j]), 2) = 2
          /\ batch_items[j].sentiment.compound = -20000

\* C5: for each symbol the aggregated positive, negative and compound are
\* sum(w_i * x_i) / sum(w_i) with w_i = max(engagement_weight_i, 1), and
\* total_weight is sum(w_i); weights 3 and 1 with compounds 0.6 and -0.2
\* aggregate to compound 0.4.
C5_WeightedMeanWithUnitFloor ==
    analysis_outcome = "returned" =>
        /\ \A s \in DOMAIN symbol_sentiment :
              /\ symbol_sentiment[s].total_weight = FlooredSum(batch_items, s, "weight")
              /\ \A key \in PolarityKeys :
                    IsMean(symbol_sentiment[s][key],
                           FlooredSum(batch_items, s, key),
                           FlooredSum(batch_items, s, "weight"))
        /\ C5_ExampleBatch => symbol_sentiment["AAPL"].compound = 40000

C5_Witness ==
    /\ analysis_outcome = "returned"
    /\ C5_ExampleBatch
    /\ symbol_sentiment["AAPL"].total_weight = 8

\* the batch without its i-th item
RemoveAt(items, i) == SubSeq(items, 1, i - 1) \o SubSeq(items, i + 1, Len(items))

\* the signals the analyzer returns for the batch without its i-th item
SignalsWithout(i) ==
    AggregateSentimentBySymbol(SymbolSentiments(RemoveAt(batch_items, i), batch_source))

\* C6 as claimed: an item with engagement weight 0 adds one mention to its
\* group and leaves the group's aggregated positive, negative, compound and
\* total_weight as they are without it.
C6_ZeroWeightContributesNothing ==
    analysis_outcome = "returned" =>
        \A i \in 1..Len(batch_items) : \A s \in DOMAIN SignalsWithout(i) :
            (Engagement(batch_items[i]) = 0 /\ Names(batch_items[i], s)) =>
                /\ symbol_sentiment[s].mentions = SignalsWithout(i)[s].mentions + 1
                /\ symbol_sentiment[s].total_weight = SignalsWithout(i)[s].total_weight
                /\ \A key \in PolarityKeys :
                      symbol_sentiment[s][key] = SignalsWithout(i)[s][key]

\* C6 as amended: an item with engagement weight 0 adds one mention to its
\* group and is folded in with weight 1: total_weight grows by 1 and each
\* weighted sum by the item's polarity, so the group's means are the sums
\* without the item plus the item's polarity, over the weight without it plus 1.
C6_ZeroWeightCountsWithUnitWeight ==
    analysis_outcome = "returned" =>
        \A i \in 1..Len(batch_items) : \A s \in DOMAIN SignalsWithout(i) :
            (Engagement(batch_items[i]) = 0 /\ Names(batch_items[i], s)) =>
                /\ symbol_sentiment[s].mentions = SignalsWithout(i)[s].mentions + 1
                /\ symbol_sentiment[s].total_weight
                      = SignalsWithout(i)[s].total_weight + 2
                /\ \A key \in PolarityKeys :
                      IsMean(symbol_sentiment[s][key],
                             FlooredSum(RemoveAt(batch_items, i), s, key)
                                 + 2 * batch_items[i].sentiment[key],
                             FlooredSum(RemoveAt(batch_items, i), s, "weight") + 2)

\* a zero-engagement item with compound -0.2 joins an item of weight 3 and
\* compound 0.6: the compound moves from 0.6 to 0.4
C6_Witness ==
    /\ analysis_outcome = "returned"
    /\ \E i \in 1..Len(batch_items) :
          /\ Engagement(batch_items[i]) = 0
          /\ "AAPL" \in DOMAIN SignalsWithout(i)
          /\ SignalsWithout(i)["AAPL"].compound = 60000
          /\ SignalsWithout(i)["AAPL"].total_weight = 6
          /\ symbol_sentiment["AAPL"].compound = 40000

InvalidObservationIn(items) ==
    \E i \in 1..Len(items) :
        \/ Engagement(items[i]) < 0
        \/ items[i].sentiment.compound \notin -100000..100000

\* C7: aggregation of a batch holding an item with a negative engagement
\* weight or a compound outside [-1, 1] fails with InvalidObservation and
\* produces no signal for any symbol.
C7_InvalidObservationAborts ==
    (analysis_outcome # "idle" /\ InvalidObservationIn(batch_items)) =>
        /\ analysis_outcome = "InvalidObservation"
        /\ symbol_sentiment = EmptyDict

(***************************************************************************)
(* Properties of the two backtests (specification SpecBacktest).  The      *)
(* forward return of a matched trading day is the value of the column the  *)
(* engine reads for it: Forward_<h>_Return in SentimentBacktester,         *)
(* price_change_<h> in SentimentPriceAnalyzer.                             *)
(***************************************************************************)
\* run_comprehensive_backtest has returned a report
Backtested ==
    "run_comprehensive_backtest" \in called /\ DOMAIN accuracy_results # {}

\* analyze_sentiment_price_correlation has returned a report
Correlated ==
    "analyze_sentiment_price_correlation" \in called /\ DOMAIN correlation # {}

DetailedResults == accuracy_results.detailed_results

\* the rows of a history at the least calendar distance from a date, and
\* whether a date has a trading day within 3 calendar days
NearestRows(hist, date) ==
    { i \in 1..Len(hist) :
        \A j \in 1..Len(hist) : Abs(hist[i].date - date) <= Abs(hist[j].date - date) }

WithinTolerance(symbol, date) ==
    \E i \in 1..Len(Get(price_history, symbol, <<>>)) :
        Abs(price_history[symbol][i].date - date) <= 3

\* the stored records that have a trading day within tolerance
MatchableRecords ==
    { i \in 1..Len(sentiment_history) :
        WithinTolerance(sentiment_history[i].symbol, sentiment_history[i].date) }

\* the loaded sentiment items that have a trading day within tolerance
MatchableItems ==
    { i \in 1..Len(historical_sentiment) :
        WithinTolerance(historical_sentiment[i].symbol, historical_sentiment[i].date) }

\* C14: every record a backtest processed carries the forward returns of a
\* trading day at the least calendar distance from the record's date, before or
\* after it, and that day is at most 3 calendar days away; a record without
\* such a day is in no result and in no count of predictions.
C14_NearestTradingDayWithinTolerance ==
    /\ Backtested =>
          /\ \A k \in 1..Len(DetailedResults) :
                LET entry == DetailedResults[k]
                    hist == price_history[entry.symbol]
                IN /\ WithinTolerance(entry.symbol, entry.date)
                   /\ \E i \in NearestRows(hist, entry.date) :
                         LET row == WithForwardReturns(hist)[i]
                         IN /\ entry.forward_1d_return = row.Forward_1d_Return
                            /\ entry.forward_3d_return = row.Forward_3d_Return
                            /\ entry.forward_7d_return = row.Forward_7d_Return
          /\ accuracy_results.total_predictions <= Cardinality(MatchableRecords)
    /\ Correlated =>
          /\ \A k \in 1..Len(correlation.results) :
                LET entry == correlation.results[k]
                    hist == price_history[entry.symbol]
                IN /\ WithinTolerance(entry.symbol, entry.date)
                   /\ \E i \in NearestRows(hist, entry.date) :
                         LET row == WithPriceChanges(hist)[i]
                         IN /\ entry.price_change_1d = row.price_change_1d
                            /\ entry.price_change_3d = row.price_change_3d
                            /\ entry.price_change_7d = row.price_change_7d
          /\ \A period \in Periods :
                correlation.total_predictions[period] <= Cardinality(MatchableItems)

\* the processed records of a report whose return for a period is defined
DefinedAt(entries, column) == { k \in 1..Len(entries) : ~IsNa(entries[k][column]) }

BacktesterCorrect(period) ==
    CASE period = "1d" -> accuracy_results.correct_predictions_1d
      [] period = "3d" -> accuracy_results.correct_predictions_3d
      [] period = "7d" -> accuracy_results.correct_predictions_7d

BacktesterAccuracy(period) ==
    CASE period = "1d" -> accuracy_results.accuracy_1d
      [] period = "3d" -> accuracy_results.accuracy_3d
      [] period = "7d" -> accuracy_results.accuracy_7d

\* C15: for every horizon, the predictions counted at the horizon are exactly
\* the matched records whose forward return at that horizon is defined (a
\* record counts at its defined horizons whatever its other horizons), and
\* the accuracy reported for the horizon is the correct predictions of the
\* horizon divided by that count.
C15_AccuracyPerHorizon ==
    /\ Backtested =>
          \A period \in Periods :
              LET total == Cardinality(DefinedAt(DetailedResults, ReturnColumn(period)))
              IN total > 0 =>
                    BacktesterAccuracy(period) = Ratio(BacktesterCorrect(period), total)
    /\ Correlated =>
          \A period \in Periods :
              LET total == Cardinality(DefinedAt(correlation.results, ChangeColumn(period)))
              IN /\ correlation.total_predictions[period] = total
                 /\ total > 0 =>
                       correlation.accuracies[period]
                           = Ratio(correlation.correct_predictions[period], total) * 100

\* C16: every matched record is a prediction of a direction, +1 for a
\* sentiment score above 0 and -1 otherwise: a score of 0.0 predicts -1, and a
\* score in (0, 0.1] is counted as a prediction like any other.
C16_EveryMatchedRecordPredicts ==
    /\ Backtested =>
          \A k \in 1..Len(DetailedResults) :
              DetailedResults[k].predicted_direction
                  = IF DetailedResults[k].sentiment_score > 0 THEN 1 ELSE -1
    /\ Correlated =>
          \A period \in Periods :
              \A k \in DefinedAt(correlation.results, ChangeColumn(period)) :
                  correlation.total_predictions[period] >= 1

\* the direction of a return as the claims state it: a return of 0 counts as up
DirectionZeroUp(forward_return) == IF forward_return.value >= 0 THEN 1 ELSE -1

\* the direction a sentiment score predicts
Predicted(sentiment_score) == IF sentiment_score > 0 THEN 1 ELSE -1

\* C17: the correct predictions of a horizon are the predictions whose
\* direction equals the sign of the forward return at the horizon, a return of
\* exactly 0 counting as up: +1 with a zero return is correct, -1 with a zero
\* return is not.
C17_CorrectIffDirectionMatchesZeroUp ==
    /\ Backtested =>
          \A period \in Periods :
              BacktesterCorrect(period)
                  = Cardinality({ k \in DefinedAt(DetailedResults, ReturnColumn(period)) :
                                    DetailedResults[k].predicted_direction
                                        = DirectionZeroUp(DetailedResults[k][ReturnColumn(period)]) })
    /\ Correlated =>
          \A period \in Periods :
              correlation.correct_predictions[period]
                  = Cardinality({ k \in DefinedAt(correlation.results, ChangeColumn(period)) :
                                    /\ Abs(correlation.results[k].sentiment_score) > 1000
                                    /\ Predicted(correlation.results[k].sentiment_score)
                                           = DirectionZeroUp(correlation.results[k][ChangeColumn(period)]) })

\* the insufficient-data flag of a horizon in a report
InsufficientData(report, period) ==
    /\ "insufficient_data" \in DOMAIN report
    /\ report.insufficient_data[period]

\* C18: a horizon without any matched prediction is reported with accuracy 0.0
\* and with its insufficient-data flag set, and a horizon that has predictions
\* is reported with the flag not set.
C18_InsufficientDataFlagged ==
    /\ Backtested =>
          \A period \in Periods :
              IF DefinedAt(DetailedResults, ReturnColumn(period)) = {}
              THEN BacktesterAccuracy(period) = 0 /\ InsufficientData(accuracy_results, period)
              ELSE ~InsufficientData(accuracy_results, period)
    /\ Correlated =>
          \A period \in Periods :
              IF correlation.total_predictions[period] = 0
              THEN correlation.accuracies[period] = 0 /\ InsufficientData(correlation, period)
              ELSE ~InsufficientData(correlation, period)

\* the confidence buckets as the claim states them, closed on the left
C19_ClaimedBucket(confidence_score) ==
    IF confidence_score >= 0 /\ confidence_score < 3000 THEN "Low"
    ELSE IF confidence_score >= 3000 /\ confidence_score < 5000 THEN "Medium-Low"
    ELSE IF confidence_score >= 5000 /\ confidence_score < 7000 THEN "Medium-High"
    ELSE IF confidence_score >= 7000 /\ confidence_score <= 10000 THEN "High"
    ELSE "nan"

BucketLabels == {"Low", "Medium-Low", "Medium-High", "High"}

BucketCount(label) ==
    IF label \in DOMAIN confidence_analysis THEN confidence_analysis[label].count ELSE 0

\* C19: every entry with a confidence in [0, 1] is counted in exactly one
\* bucket, the one of [0, 0.3), [0.3, 0.5), [0.5, 0.7), [0.7, 1.0] that holds
\* its confidence, so that the counts of the buckets add up to the number of
\* entries.
C19_BucketsLowerInclusive ==
    Backtested /\ DetailedResults # <<>> =>
        /\ \A label \in BucketLabels :
              BucketCount(label)
                  = Cardinality({ k \in 1..Len(DetailedResults) :
                                    C19_ClaimedBucket(DetailedResults[k].confidence_score) = label })
        /\ BucketCount("Low") + BucketCount("Medium-Low") + BucketCount("Medium-High")
              + BucketCount("High") = Len(DetailedResults)

\* the entries the analysis put in a bucket that have a return for a period
BucketEntries(label, period) ==
    { k \in DefinedAt(DetailedResults, ReturnColumn(period)) :
        ConfidenceBin(DetailedResults[k].confidence_score) = label }

\* C20: the accuracy of a bucket at a horizon is, over the entries of that
\* bucket with a defined forward return at the horizon, the share of entries
\* whose predicted direction equals the direction of the return (0 counting
\* as up, as for the overall accuracy); an entry of another bucket changes
\* nothing, and a +1 prediction with a negative 7-day return is one incorrect
\* prediction of its bucket.
C20_BucketAccuracyFromOwnEntries ==
    Backtested =>
        \A label \in DOMAIN confidence_analysis, period \in Periods :
            LET entries == BucketEntries(label, period)
                matching == { k \in entries :
                                DetailedResults[k].predicted_direction
                                    = DirectionZeroUp(DetailedResults[k][ReturnColumn(period)]) }
                accuracy == CASE period = "1d" -> confidence_analysis[label].accuracy_1d
                              [] period = "3d" -> confidence_analysis[label].accuracy_3d
                              [] period = "7d" -> confidence_analysis[label].accuracy_7d
            IN entries # {} => accuracy = Ratio(Cardinality(matching), Cardinality(entries))

(***************************************************************************)
(* Claims about the aggregated signals that exist.                         *)
(***************************************************************************)
\* C26: every aggregated signal of a returned analysis has at least one
\* mention, and its total_weight (counted in halves) is at least its mentions,
\* whatever the engagement of the items, zero and negative included.
C26_SignalHasMentionsAndWeight ==
    analysis_outcome = "returned" =>
        \A symbol \in DOMAIN symbol_sentiment :
            /\ symbol_sentiment[symbol].mentions >= 1
            /\ symbol_sentiment[symbol].total_weight >= 2 * symbol_sentiment[symbol].mentions

\* two posts of a symbol were analyzed, one with a negative score and one
\* with a score of zero
C26_Witness ==
    /\ analysis_outcome = "returned"
    /\ batch_source = "reddit"
    /\ Len(batch_items) = 2
    /\ batch_items[1].score < 0
    /\ batch_items[2].score = 0
    /\ "AAPL" \in DOMAIN symbol_sentiment
    /\ symbol_sentiment["AAPL"].mentions = 2

(***************************************************************************)
(* Claims about calls in progress on shared instances.                     *)
(***************************************************************************)
\* what the call of a frame returns when it runs alone
ReturnedAlone(frame) ==
    IF frame.method = "rank_stocks"
    THEN RankStocksResult(frame.reddit, frame.twitter, frame.order, now)
    ELSE [symbol_sentiment |->
              AggregateSentimentBySymbol(SymbolSentiments(frame.items,
                                                          SourceOf(frame.method))),
          total |-> Len(frame.items),
          symbols_mentioned |-> DOMAIN SymbolSentiments(frame.items,
                                                        SourceOf(frame.method))]

\* C25: a call of analyze_posts, analyze_tweets or rank_stocks that returned
\* while another call on the same instances was in progress, interleaved with
\* it step by step, returned what it returns when it runs alone.
C25_InterleavedRunsReturnAsAlone ==
    \A run \in DOMAIN in_flight :
        in_flight[run].returned => in_flight[run].result = ReturnedAlone(in_flight[run])

\* two calls of one method have returned different results, each having
\* taken a step while the other was in its loop
C25_Witness ==
    /\ DOMAIN in_flight = Runs
    /\ in_flight[1].returned /\ in_flight[2].returned
    /\ in_flight[1].interleaved /\ in_flight[2].interleaved
    /\ in_flight[1].method = in_flight[2].method
    /\ in_flight[1].pc >= 2 /\ in_flight[2].pc >= 1
    /\ in_flight[1].result # in_flight[2].result

(***************************************************************************)
(* Claims about the loading of the sentiment history.                      *)
(***************************************************************************)
\* load_historical_sentiment has returned
Loaded == "analyze_sentiment_price_correlation" \in called

\* the (date, symbol) pairs of a list of items, and the loaded entries of a pair
KeysOf(items) == { Key(items[i]) : i \in 1..Len(items) }

JsonData == LoadJsonSentimentData(sentiment_history)

DatabaseData == LoadDatabaseSentimentData(sentiment_table)

Survivors(key) ==
    { i \in 1..Len(historical_sentiment) : Key(historical_sentiment[i]) = key }

ItemsOf(items, key) == { items[i] : i \in { j \in 1..Len(items) : Key(items[j]) = key } }

\* exactly one entry per pair of either history, and no other entry
OnePerPair ==
    /\ \A key \in KeysOf(JsonData) \cup KeysOf(DatabaseData) :
          Cardinality(Survivors(key)) = 1
    /\ KeysOf(historical_sentiment) = KeysOf(JsonData) \cup KeysOf(DatabaseData)

\* C21 as stated: the combined history has exactly one entry per (symbol,
\* date) pair, and for a pair of both histories it is the entry of the
\* database table, the entry of the daily JSON export being discarded.
C21_DatabaseEntrySurvives ==
    Loaded =>
        /\ OnePerPair
        /\ \A key \in KeysOf(JsonData) \cap KeysOf(DatabaseData) :
              \A i \in Survivors(key) :
                  historical_sentiment[i] \in ItemsOf(DatabaseData, key)

\* C21: the combined history has exactly one entry per (symbol, date) pair,
\* and for a pair of both histories it is an entry of the daily JSON export,
\* the entry of the database table being discarded, whatever the order of the
\* stored rows and files.
C21_JsonEntrySurvives ==
    Loaded =>
        /\ OnePerPair
        /\ \A key \in KeysOf(JsonData) \cap KeysOf(DatabaseData) :
              \A i \in Survivors(key) :
                  /\ historical_sentiment[i] \in ItemsOf(JsonData, key)
                  /\ historical_sentiment[i] \notin ItemsOf(DatabaseData, key)

\* both histories hold the pair (day 1, AAPL), and the loaded entry of the
\* pair is the one of the JSON export
C21_Witness ==
    /\ Loaded
    /\ sentiment_table # <<>>
    /\ KeysOf(JsonData) \cap KeysOf(DatabaseData) # {}
    /\ \E i \in 1..Len(historical_sentiment) :
          /\ Key(historical_sentiment[i]) \in KeysOf(DatabaseData)
          /\ historical_sentiment[i].source = "json"

(***************************************************************************)
(* Claims about records without price data.                                *)
(***************************************************************************)
\* the entries of the two reports, none where the method returned early
BacktestEntries == IF Backtested THEN DetailedResults ELSE <<>>

CorrelationEntries == IF Correlated THEN correlation.results ELSE <<>>

InEntries(entries, record) ==
    \E k \in 1..Len(entries) :
        entries[k].symbol = record.symbol /\ entries[k].date = record.date

\* the record's date is a trading day of its symbol that has a next trading day
TradesOn(symbol, date) ==
    \E i \in 1..Len(Get(price_history, symbol, <<>>)) :
        price_history[symbol][i].date = date /\ i < Len(price_history[symbol])

\* C22: a record whose symbol has no price series, an empty one, or one
\* without a trading day within 3 calendar days of the record's date is in no
\* result of either engine, and the engine returns with every record in its
\* results whose date is a trading day of its symbol's series.
C22_AbsentPriceDataSkipped ==
    /\ "run_comprehensive_backtest" \in called =>
          \A i \in 1..Len(sentiment_history) :
              LET record == sentiment_history[i]
              IN /\ ~WithinTolerance(record.symbol, record.date)
                        => ~InEntries(BacktestEntries, record)
                 /\ TradesOn(record.symbol, record.date)
                        => InEntries(BacktestEntries, record)
    /\ Loaded =>
          \A i \in 1..Len(historical_sentiment) :
              LET item == historical_sentiment[i]
              IN /\ ~WithinTolerance(item.symbol, item.date)
                        => ~InEntries(CorrelationEntries, item)
                 /\ TradesOn(item.symbol, item.date)
                        => InEntries(CorrelationEntries, item)

(***************************************************************************)
(* Claims about the forward returns.                                       *)
(***************************************************************************)
Horizon(period) == CASE period = "1d" -> 1 [] period = "3d" -> 3 [] period = "7d" -> 7

\* the forward return as the claim states it: (close[t+h] - close[t]) / close[t],
\* undefined where the series has no trading day t + h
C24_ClaimedForwardReturn(hist, t, h) ==
    IF t + h <= Len(hist)
    THEN Float(MeanOf((hist[t + h].Close - hist[t].Close) * 100000, hist[t].Close))
    ELSE NaN

\* C24: for every horizon h of 1, 3 and 7 trading days, the forward return an
\* engine reports for a record matched to trading day t is
\* (close[t+h] - close[t]) / close[t] (times 100 where the engine reports per
\* cent), and it is undefined exactly when the series has no trading day t+h.
C24_ForwardReturnFromLaterClose ==
    /\ Backtested =>
          \A k \in 1..Len(DetailedResults), period \in Periods :
              LET entry == DetailedResults[k]
                  hist == price_history[entry.symbol]
                  t == First({ i \in 1..Len(hist) : hist[i].date >= entry.date })
              IN entry[ReturnColumn(period)]
                     = C24_ClaimedForwardReturn(hist, t, Horizon(period))
    /\ Correlated =>
          \A k \in 1..Len(correlation.results), period \in Periods :
              LET entry == correlation.results[k]
                  hist == price_history[entry.symbol]
                  t == ClosestRow(hist, entry.date)
              IN entry[ChangeColumn(period)]
                     = Percent(C24_ClaimedForwardReturn(hist, t, Horizon(period)))

(***************************************************************************)
(* Claims about the bucket tallies against the overall tallies.            *)
(***************************************************************************)
\* the correct predictions of a bucket at a horizon: its accuracy times its
\* number of entries with a return at the horizon
BucketCorrect(label, period) ==
    IF label \notin DOMAIN confidence_analysis THEN 0
    ELSE LET accuracy == CASE period = "1d" -> confidence_analysis[label].accuracy_1d
                           [] period = "3d" -> confidence_analysis[label].accuracy_3d
                           [] period = "7d" -> confidence_analysis[label].accuracy_7d
         IN DivNearest(accuracy * Cardinality(BucketEntries(label, period)), 100000)

EveryConfidenceInBucket ==
    \A k \in 1..Len(DetailedResults) :
        ConfidenceBin(DetailedResults[k].confidence_score) # "nan"

\* C29: when every entry's confidence is in a bucket, the correct predictions
\* of the buckets at a horizon add up to the overall correct predictions at
\* the horizon: both tallies classify a prediction and a forward return alike,
\* a -1 prediction with a return of exactly 0 included.
C29_BucketTalliesMatchOverall ==
    Backtested /\ EveryConfidenceInBucket =>
        \A period \in Periods :
            BucketCorrect("Low", period) + BucketCorrect("Medium-Low", period)
                + BucketCorrect("Medium-High", period) + BucketCorrect("High", period)
              = BacktesterCorrect(period)

(***************************************************************************)
(* Claims about the record store.                                          *)
(***************************************************************************)
\* every row of a table is a row of another, field by field
RowsKept(before, after) ==
    \A i \in 1..Len(before) : \E j \in 1..Len(after) : after[j] = before[i]

C27_LatestIsLatestRun ==
    /\ db_last = "get_latest_rankings"
    /\ "store_rankings" \in db_called
    /\ "cleanup_old_data" \notin db_called
    /\ last_stored.failed_insert = 0
    => \E limit \in Limits :
           latest_rankings = Limit(OrderByRank(last_stored.rows), limit)

\* the table cleanup_old_data leaves as the claim states it: of the rows
\* older than the cutoff, the latest of each day and symbol
C28_ClaimedCleanup(table, cutoff) ==
    LET old == { i \in 1..Len(table) : OlderThan(table[i].created_at, cutoff) }
        latest == { j \in old :
                      \A k \in old :
                          DateOf(table[k].created_at) = DateOf(table[j].created_at)
                              /\ table[k].symbol = table[j].symbol
                          => table[k].id <= table[j].id }
    IN SelectSeq(table, LAMBDA row :
           \/ ~OlderThan(row.created_at, cutoff)
           \/ \E j \in latest : table[j] = row)

\* C28: cleanup_old_data leaves every ranking row newer than the cutoff in
\* the table and, of the rows older than the cutoff, keeps for each day and
\* symbol the latest row of that day and deletes the others.
C28_CleanupKeepsLatestOfDay ==
    [][db_last' = "cleanup_old_data" =>
           stock_rankings' = C28_ClaimedCleanup(stock_rankings, cutoff_date')]_vars

\* C30: a store_rankings call returns with its outcome logged; when one of
\* its INSERTs failed the table is as before the call and the error is
\* logged, and when none failed the table is the one before the call followed
\* by one row per record of the call, in order, with the record's values.
C30_StoreAllOrNothing ==
    [][db_last' = "store_rankings" =>
           IF last_stored'.failed_insert # 0
           THEN /\ stock_rankings' = stock_rankings
                /\ db_log' = "Error storing rankings"
           ELSE LET rankings == last_stored'.rankings
                    n == Len(stock_rankings)
                IN /\ Len(stock_rankings') = n + Len(rankings)
                   /\ SubSeq(stock_rankings', 1, n) = stock_rankings
                   /\ \A i \in 1..Len(rankings) :
                         /\ stock_rankings'[n + i].symbol = rankings[i].symbol
                         /\ stock_rankings'[n + i].rank = rankings[i].rank
                         /\ stock_rankings'[n + i].composite_score
                                = rankings[i].composite_score
                   /\ db_log' = "Stored rankings"]_vars

\* the second INSERT of a call failed after the first had executed, on a
\* table that held the rows of an earlier call
C30_Witness ==
    /\ db_last = "store_rankings"
    /\ last_stored.failed_insert = 2
    /\ db_log = "Error storing rankings"
    /\ stock_rankings # <<>>

====
